---- MODULE Spec2Model ----
(***************************************************************************)
(* dcc6502: disassembler and cycle counter for the 6502.                   *)
(*                                                                         *)
(* The module models src/dcc6502.c: the opcode table g_opcode_table, the   *)
(* one-instruction decoder disassemble() with its helpers append_cycle()   *)
(* and append_nes(), and the disassembly loop of main().  Text is built as *)
(* the sprintf formats build it, addresses keep the width of their C type. *)
(***************************************************************************)
EXTENDS Integers, Sequences, FiniteSets, TLC

(***************************************************************************)
(* Program constants.                                                      *)
(***************************************************************************)
NUMBER_OPCODES == 256

\* Exceptions for cycle counting (bit masks)
CYCLE_PAGE == 1
CYCLE_BRANCH == 2
BAD == 8
CYCLE_MASK == CYCLE_PAGE + CYCLE_BRANCH

\* addressing_mode_e
IMMED == 0
ABSOL == 1
ZEROP == 2
IMPLI == 3
INDIA == 4
ABSIX == 5
ABSIY == 6
ZEPIX == 7
ZEPIY == 8
INDIN == 9
ININD == 10
RELAT == 11
ACCUM == 12

\* Number of values of a uint16_t (pc, current_addr, word_operand, org)
UINT16_RANGE == 65536

\* Number of values of a uint8_t (opcode, byte_operand, a buffer cell)
UINT8_RANGE == 256

\* an allocation of the address space alone, without the padding
BUFFER_SIZE_unpadded == UINT16_RANGE

\* calloc(1, 65536 + 4): the bytes main allocates for the buffer
BUFFER_SIZE == 65536 + 4

(***************************************************************************)
(* The opcode table: one row per opcode byte, row i+1 for opcode i.        *)
(***************************************************************************)
Row(m, a, c, e) == [mnemonic |-> m, addressing |-> a, cycles |-> c, cycles_exceptions |-> e]

g_opcode_table == <<
    Row("BRK", IMPLI, 7, 0                        ), \* 00
    Row("ORA", INDIN, 6, 0                        ), \* 01
    Row("???", 0    , 0, BAD                      ), \* 02
    Row("???", 0    , 0, BAD                      ), \* 03
    Row("???", 0    , 0, BAD                      ), \* 04
    Row("ORA", ZEROP, 3, 0                        ), \* 05
    Row("ASL", ZEROP, 5, 0                        ), \* 06
    Row("???", 0    , 0, BAD                      ), \* 07
    Row("PHP", IMPLI, 3, 0                        ), \* 08
    Row("ORA", IMMED, 2, 0                        ), \* 09
    Row("ASL", ACCUM, 2, 0                        ), \* 0A
    Row("???", 0    , 0, BAD                      ), \* 0B
    Row("???", 0    , 0, BAD                      ), \* 0C
    Row("ORA", ABSOL, 4, 0                        ), \* 0D
    Row("ASL", ABSOL, 6, 0                        ), \* 0E
    Row("???", 0    , 0, BAD                      ), \* 0F
    Row("BPL", RELAT, 2, CYCLE_PAGE + CYCLE_BRANCH), \* 10
    Row("ORA", ININD, 5, CYCLE_PAGE               ), \* 11
    Row("???", 0    , 0, BAD                      ), \* 12
    Row("???", 0    , 0, BAD                      ), \* 13
    Row("???", 0    , 0, BAD                      ), \* 14
    Row("ORA", ZEPIX, 4, 0                        ), \* 15
    Row("ASL", ZEPIX, 6, 0                        ), \* 16
    Row("???", 0    , 0, BAD                      ), \* 17
    Row("CLC", IMPLI, 2, 0                        ), \* 18
    Row("ORA", ABSIY, 4, CYCLE_PAGE               ), \* 19
    Row("???", 0    , 0, BAD                      ), \* 1A
    Row("???", 0    , 0, BAD                      ), \* 1B
    Row("???", 0    , 0, BAD                      ), \* 1C
    Row("ORA", ABSIX, 4, CYCLE_PAGE               ), \* 1D
    Row("ASL", ABSIX, 7, 0                        ), \* 1E
    Row("???", 0    , 0, BAD                      ), \* 1F
    Row("JSR", ABSOL, 6, 0                        ), \* 20
    Row("AND", INDIN, 6, 0                        ), \* 21
    Row("???", 0    , 0, BAD                      ), \* 22
    Row("???", 0    , 0, BAD                      ), \* 23
    Row("BIT", ZEROP, 3, 0                        ), \* 24
    Row("AND", ZEROP, 3, 0                        ), \* 25
    Row("ROL", ZEROP, 5, 0                        ), \* 26
    Row("???", 0    , 0, BAD                      ), \* 27
    Row("PLP", IMPLI, 4, 0                        ), \* 28
    Row("AND", IMMED, 2, 0                        ), \* 29
    Row("ROL", ACCUM, 2, 0                        ), \* 2A
    Row("???", 0    , 0, BAD                      ), \* 2B
    Row("BIT", ABSOL, 4, 0                        ), \* 2C
    Row("AND", ABSOL, 4, 0                        ), \* 2D
    Row("ROL", ABSOL, 6, 0                        ), \* 2E
    Row("???", 0    , 0, BAD                      ), \* 2F
    Row("BMI", RELAT, 2, CYCLE_PAGE + CYCLE_BRANCH), \* 30
    Row("AND", ININD, 5, CYCLE_PAGE               ), \* 31
    Row("???", 0    , 0, BAD                      ), \* 32
    Row("???", 0    , 0, BAD                      ), \* 33
    Row("???", 0    , 0, BAD                      ), \* 34
    Row("AND", ZEPIX, 4, 0                        ), \* 35
    Row("ROL", ZEPIX, 6, 0                        ), \* 36
    Row("???", 0    , 0, BAD                      ), \* 37
    Row("SEC", IMPLI, 2, 0                        ), \* 38
    Row("AND", ABSIY, 4, CYCLE_PAGE               ), \* 39
    Row("???", 0    , 0, BAD                      ), \* 3A
    Row("???", 0    , 0, BAD                      ), \* 3B
    Row("???", 0    , 0, BAD                      ), \* 3C
    Row("AND", ABSIX, 4, CYCLE_PAGE               ), \* 3D
    Row("ROL", ABSIX, 7, 0                        ), \* 3E
    Row("???", 0    , 0, BAD                      ), \* 3F
    Row("RTI", IMPLI, 6, 0                        ), \* 40
    Row("EOR", INDIN, 6, 1                        ), \* 41
    Row("???", 0    , 0, BAD                      ), \* 42
    Row("???", 0    , 0, BAD                      ), \* 43
    Row("???", 0    , 0, BAD                      ), \* 44
    Row("EOR", ZEROP, 3, 0                        ), \* 45
    Row("LSR", ZEROP, 5, 0                        ), \* 46
    Row("???", 0    , 0, BAD                      ), \* 47
    Row("PHA", IMPLI, 3, 0                        ), \* 48
    Row("EOR", IMMED, 2, 0                        ), \* 49
    Row("LSR", ACCUM, 2, 0                        ), \* 4A
    Row("???", 0    , 0, BAD                      ), \* 4B
    Row("JMP", ABSOL, 3, 0                        ), \* 4C
    Row("EOR", ABSOL, 4, 0                        ), \* 4D
    Row("LSR", ABSOL, 6, 0                        ), \* 4E
    Row("???", 0    , 0, BAD                      ), \* 4F
    Row("BVC", RELAT, 2, CYCLE_PAGE + CYCLE_BRANCH), \* 50
    Row("EOR", ININD, 5, CYCLE_PAGE               ), \* 51
    Row("???", 0    , 0, BAD                      ), \* 52
    Row("???", 0    , 0, BAD                      ), \* 53
    Row("???", 0    , 0, BAD                      ), \* 54
    Row("EOR", ZEPIX, 4, 0                        ), \* 55
    Row("LSR", ZEPIX, 6, 0                        ), \* 56
    Row("???", 0    , 0, BAD                      ), \* 57
    Row("CLI", IMPLI, 2, 0                        ), \* 58
    Row("EOR", ABSIY, 4, CYCLE_PAGE               ), \* 59
    Row("???", 0    , 0, BAD                      ), \* 5A
    Row("???", 0    , 0, BAD                      ), \* 5B
    Row("???", 0    , 0, BAD                      ), \* 5C
    Row("EOR", ABSIX, 4, CYCLE_PAGE               ), \* 5D
    Row("LSR", ABSIX, 7, 0                        ), \* 5E
    Row("???", 0    , 0, BAD                      ), \* 5F
    Row("RTS", IMPLI, 6, 0                        ), \* 60
    Row("ADC", INDIN, 6, 0                        ), \* 61
    Row("???", 0    , 0, BAD                      ), \* 62
    Row("???", 0    , 0, BAD                      ), \* 63
    Row("???", 0    , 0, BAD                      ), \* 64
    Row("ADC", ZEROP, 3, 0                        ), \* 65
    Row("ROR", ZEROP, 5, 0                        ), \* 66
    Row("???", 0    , 0, BAD                      ), \* 67
    Row("PLA", IMPLI, 4, 0                        ), \* 68
    Row("ADC", IMMED, 2, 0                        ), \* 69
    Row("ROR", ACCUM, 2, 0                        ), \* 6A
    Row("???", 0    , 0, BAD                      ), \* 6B
    Row("JMP", INDIA, 5, 0                        ), \* 6C
    Row("ADC", ABSOL, 4, 0                        ), \* 6D
    Row("ROR", ABSOL, 6, 0                        ), \* 6E
    Row("???", 0    , 0, BAD                      ), \* 6F
    Row("BVS", RELAT, 2, CYCLE_PAGE + CYCLE_BRANCH), \* 70
    Row("ADC", ININD, 5, CYCLE_PAGE               ), \* 71
    Row("???", 0    , 0, BAD                      ), \* 72
    Row("???", 0    , 0, BAD                      ), \* 73
    Row("???", 0    , 0, BAD                      ), \* 74
    Row("ADC", ZEPIX, 4, 0                        ), \* 75
    Row("ROR", ZEPIX, 6, 0                        ), \* 76
    Row("???", 0    , 0, BAD                      ), \* 77
    Row("SEI", IMPLI, 2, 0                        ), \* 78
    Row("ADC", ABSIY, 4, CYCLE_PAGE               ), \* 79
    Row("???", 0    , 0, BAD                      ), \* 7A
    Row("???", 0    , 0, BAD                      ), \* 7B
    Row("???", 0    , 0, BAD                      ), \* 7C
    Row("ADC", ABSIX, 4, CYCLE_PAGE               ), \* 7D
    Row("ROR", ABSIX, 7, 0                        ), \* 7E
    Row("???", 0    , 0, BAD                      ), \* 7F
    Row("???", 0    , 0, BAD                      ), \* 80
    Row("STA", INDIN, 6, 0                        ), \* 81
    Row("???", 0    , 0, BAD                      ), \* 82
    Row("???", 0    , 0, BAD                      ), \* 83
    Row("STY", ZEROP, 3, 0                        ), \* 84
    Row("STA", ZEROP, 3, 0                        ), \* 85
    Row("STX", ZEROP, 3, 0                        ), \* 86
    Row("???", 0    , 0, BAD                      ), \* 87
    Row("DEY", IMPLI, 2, 0                        ), \* 88
    Row("???", 0    , 0, BAD                      ), \* 89
    Row("TXA", IMPLI, 2, 0                        ), \* 8A
    Row("???", 0    , 0, BAD                      ), \* 8B
    Row("STY", ABSOL, 4, 0                        ), \* 8C
    Row("STA", ABSOL, 4, 0                        ), \* 8D
    Row("STX", ABSOL, 4, 0                        ), \* 8E
    Row("???", 0    , 0, BAD                      ), \* 8F
    Row("BCC", RELAT, 2, CYCLE_PAGE + CYCLE_BRANCH), \* 90
    Row("STA", ININD, 5, CYCLE_PAGE               ), \* 91
    Row("???", 0    , 0, BAD                      ), \* 92
    Row("???", 0    , 0, BAD                      ), \* 93
    Row("STY", ZEPIX, 4, 0                        ), \* 94
    Row("STA", ZEPIX, 4, 0                        ), \* 95
    Row("STX", ZEPIY, 4, 0                        ), \* 96
    Row("???", 0    , 0, BAD                      ), \* 97
    Row("TYA", IMPLI, 2, 0                        ), \* 98
    Row("STA", ABSIY, 4, CYCLE_PAGE               ), \* 99
    Row("TXS", IMPLI, 2, 0                        ), \* 9A
    Row("???", 0    , 0, BAD                      ), \* 9B
    Row("???", 0    , 0, BAD                      ), \* 9C
    Row("STA", ABSIX, 4, CYCLE_PAGE               ), \* 9D
    Row("???", 0    , 0, BAD                      ), \* 9E
    Row("???", 0    , 0, BAD                      ), \* 9F
    Row("LDY", IMMED, 2, 0                        ), \* A0
    Row("LDA", INDIN, 6, 0                        ), \* A1
    Row("LDX", IMMED, 2, 0                        ), \* A2
    Row("???", 0    , 0, BAD                      ), \* A3
    Row("LDY", ZEROP, 3, 0                        ), \* A4
    Row("LDA", ZEROP, 3, 0                        ), \* A5
    Row("LDX", ZEROP, 3, 0                        ), \* A6
    Row("???", 0    , 0, BAD                      ), \* A7
    Row("TAY", IMPLI, 2, 0                        ), \* A8
    Row("LDA", IMMED, 2, 0                        ), \* A9
    Row("TAX", IMPLI, 2, 0                        ), \* AA
    Row("???", 0    , 0, BAD                      ), \* AB
    Row("LDY", ABSOL, 4, 0                        ), \* AC
    Row("LDA", ABSOL, 4, 0                        ), \* AD
    Row("LDX", ABSOL, 4, 0                        ), \* AE
    Row("???", 0    , 0, BAD                      ), \* AF
    Row("BCS", RELAT, 2, CYCLE_PAGE + CYCLE_BRANCH), \* B0
    Row("LDA", ININD, 5, CYCLE_PAGE               ), \* B1
    Row("???", 0    , 0, BAD                      ), \* B2
    Row("???", 0    , 0, BAD                      ), \* B3
    Row("LDY", ZEPIX, 4, 0                        ), \* B4
    Row("LDA", ZEPIX, 4, 0                        ), \* B5
    Row("LDX", ZEPIY, 4, 0                        ), \* B6
    Row("???", 0    , 0, BAD                      ), \* B7
    Row("CLV", IMPLI, 2, 0                        ), \* B8
    Row("LDA", ABSIY, 4, CYCLE_PAGE               ), \* B9
    Row("TSX", IMPLI, 2, 0                        ), \* BA
    Row("???", 0    , 0, BAD                      ), \* BB
    Row("LDY", ABSIX, 4, CYCLE_PAGE               ), \* BC
    Row("LDA", ABSIX, 4, CYCLE_PAGE               ), \* BD
    Row("LDX", ABSIY, 4, CYCLE_PAGE               ), \* BE
    Row("???", 0    , 0, BAD                      ), \* BF
    Row("CPY", IMMED, 2, 0                        ), \* C0
    Row("CMP", INDIN, 6, 0                        ), \* C1
    Row("???", 0    , 0, BAD                      ), \* C2
    Row("???", 0    , 0, BAD                      ), \* C3
    Row("CPY", ZEROP, 3, 0                        ), \* C4
    Row("CMP", ZEROP, 3, 0                        ), \* C5
    Row("DEC", ZEROP, 5, 0                        ), \* C6
    Row("???", 0    , 0, BAD                      ), \* C7
    Row("INY", IMPLI, 2, 0                        ), \* C8
    Row("CMP", IMMED, 2, 0                        ), \* C9
    Row("DEX", IMPLI, 2, 0                        ), \* CA
    Row("???", 0    , 0, BAD                      ), \* CB
    Row("CPY", ABSOL, 4, 0                        ), \* CC
    Row("CMP", ABSOL, 4, 0                        ), \* CD
    Row("DEC", ABSOL, 6, 0                        ), \* CE
    Row("???", 0    , 0, BAD                      ), \* CF
    Row("BNE", RELAT, 2, CYCLE_PAGE + CYCLE_BRANCH), \* D0
    Row("CMP", ININD, 5, CYCLE_PAGE               ), \* D1
    Row("???", 0    , 0, BAD                      ), \* D2
    Row("???", 0    , 0, BAD                      ), \* D3
    Row("???", 0    , 0, BAD                      ), \* D4
    Row("CMP", ZEPIX, 4, 0                        ), \* D5
    Row("DEC", ZEPIX, 6, 0                        ), \* D6
    Row("???", 0    , 0, BAD                      ), \* D7
    Row("CLD", IMPLI, 2, 0                        ), \* D8
    Row("CMP", ABSIY, 4, CYCLE_PAGE               ), \* D9
    Row("???", 0    , 0, BAD                      ), \* DA
    Row("???", 0    , 0, BAD                      ), \* DB
    Row("???", 0    , 0, BAD                      ), \* DC
    Row("CMP", ABSIX, 4, CYCLE_PAGE               ), \* DD
    Row("DEC", ABSIX, 7, 0                        ), \* DE
    Row("???", 0    , 0, BAD                      ), \* DF
    Row("CPX", IMMED, 2, 0                        ), \* E0
    Row("SBC", INDIN, 6, 0                        ), \* E1
    Row("???", 0    , 0, BAD                      ), \* E2
    Row("???", 0    , 0, BAD                      ), \* E3
    Row("CPX", ZEROP, 3, 0                        ), \* E4
    Row("SBC", ZEROP, 3, 0                        ), \* E5
    Row("INC", ZEROP, 5, 0                        ), \* E6
    Row("???", 0    , 0, BAD                      ), \* E7
    Row("INX", IMPLI, 2, 0                        ), \* E8
    Row("SBC", IMMED, 2, 0                        ), \* E9
    Row("NOP", IMPLI, 2, 0                        ), \* EA
    Row("???", 0    , 0, BAD                      ), \* EB
    Row("CPX", ABSOL, 4, 0                        ), \* EC
    Row("SBC", ABSOL, 4, 0                        ), \* ED
    Row("INC", ABSOL, 6, 0                        ), \* EE
    Row("???", 0    , 0, BAD                      ), \* EF
    Row("BEQ", RELAT, 2, CYCLE_PAGE + CYCLE_BRANCH), \* F0
    Row("SBC", ININD, 5, CYCLE_PAGE               ), \* F1
    Row("???", 0    , 0, BAD                      ), \* F2
    Row("???", 0    , 0, BAD                      ), \* F3
    Row("???", 0    , 0, BAD                      ), \* F4
    Row("SBC", ZEPIX, 4, 0                        ), \* F5
    Row("INC", ZEPIX, 6, 0                        ), \* F6
    Row("???", 0    , 0, BAD                      ), \* F7
    Row("SED", IMPLI, 2, 0                        ), \* F8
    Row("SBC", ABSIY, 4, CYCLE_PAGE               ), \* F9
    Row("???", 0    , 0, BAD                      ), \* FA
    Row("???", 0    , 0, BAD                      ), \* FB
    Row("???", 0    , 0, BAD                      ), \* FC
    Row("SBC", ABSIX, 4, CYCLE_PAGE               ), \* FD
    Row("INC", ABSIX, 7, 0                        ), \* FE
    Row("???", 0    , 0, BAD                      )  \* FF
>>

\* a lookup in which the STY absolute row sits at $9C, as the comment of its
\* source line says, and the illegal row of $9C at $8C
opcode_entry_swapped(opcode) == IF opcode = 140 THEN g_opcode_table[156 + 1] ELSE IF opcode = 156 THEN g_opcode_table[140 + 1] ELSE g_opcode_table[opcode + 1]
\* a lookup in which the BPL row lost CYCLE_PAGE and keeps CYCLE_BRANCH alone
opcode_entry_bpl_branch_only(opcode) == IF opcode = 16 THEN [g_opcode_table[16 + 1] EXCEPT !.cycles_exceptions = CYCLE_BRANCH] ELSE g_opcode_table[opcode + 1]
\* g_opcode_table[opcode], as disassemble and append_cycle index it
opcode_entry(opcode) == g_opcode_table[opcode + 1]

(***************************************************************************)
(* C arithmetic on the fixed-width unsigned types.                         *)
(***************************************************************************)
\* conversion of an int to uint16_t
u16(x) == x % UINT16_RANGE

\* (mask & bit) != 0, bit a power of two
HasFlag(mask, bit) == (mask \div bit) % 2 = 1

HIGH_PART(val) == (val \div 256) % 256
LOW_PART(val) == val % 256

\* addr & 0xff00u, addr a uint16_t
PageBits(addr) == addr - (addr % 256)

(***************************************************************************)
(* sprintf conversions: %X, %0wX, %d, %-ws.                                *)
(***************************************************************************)
HexDigit == <<"0", "1", "2", "3", "4", "5", "6", "7", "8", "9", "A", "B", "C", "D", "E", "F">>

RECURSIVE HexStr(_)
HexStr(v) == IF v < 16 THEN HexDigit[v + 1] ELSE HexStr(v \div 16) \o HexDigit[(v % 16) + 1]

RECURSIVE Repeat(_, _)
Repeat(s, n) == IF n <= 0 THEN "" ELSE s \o Repeat(s, n - 1)

\* %0wX
Fmt0X(w, v) == Repeat("0", w - Len(HexStr(v))) \o HexStr(v)

RECURSIVE FmtD(_)
FmtD(v) == IF v < 10 THEN HexDigit[v + 1] ELSE FmtD(v \div 10) \o HexDigit[(v % 10) + 1]

\* %-ws
PadRight(w, s) == s \o Repeat(" ", w - Len(s))

DUMP_FORMAT(options, hex_dump, opcode_repr) == PadRight(IF options.hex_output THEN 16 ELSE 8, hex_dump) \o PadRight(16, opcode_repr) \o ";"

(***************************************************************************)
(* The buffer.  main callocs BUFFER_SIZE zero bytes and freads the file    *)
(* into it, so a buffer is given by its cells that were written: a         *)
(* function from some indices to bytes, every other cell being 0.          *)
(***************************************************************************)
ReadCell(buffer, i) == IF i \in DOMAIN buffer THEN buffer[i] ELSE 0

\* a LOAD_BYTE whose cursor is wider than 16 bits
LOAD_BYTE_wide_cursor(buffer, pc) == [operands |-> <<ReadCell(buffer, pc)>>, byte_operand |-> ReadCell(buffer, pc), word_operand |-> 0, reads |-> <<pc>>, pc |-> pc + 1]

\* LOAD_BYTE(): byte_operand = buffer[*pc]; *pc += 1
\* (byte_operand is a field only where it was loaded: the code reads it nowhere else)
LOAD_BYTE(buffer, pc) == [operands |-> <<ReadCell(buffer, pc)>>, byte_operand |-> ReadCell(buffer, pc), word_operand |-> 0, reads |-> <<pc>>, pc |-> u16(pc + 1)]

\* a LOAD_WORD that takes the first operand byte as the high byte
LOAD_WORD_big_endian(buffer, pc) == [operands |-> <<ReadCell(buffer, pc), ReadCell(buffer, pc + 1)>>, word_operand |-> 256 * ReadCell(buffer, pc) + ReadCell(buffer, pc + 1), reads |-> <<pc, pc + 1>>, pc |-> u16(pc + 2)]

\* LOAD_WORD(): word_operand = buffer[*pc] | (buffer[*pc + 1] << 8); *pc += 2
LOAD_WORD(buffer, pc) == [operands |-> <<ReadCell(buffer, pc), ReadCell(buffer, pc + 1)>>, word_operand |-> ReadCell(buffer, pc) + 256 * ReadCell(buffer, pc + 1), reads |-> <<pc, pc + 1>>, pc |-> u16(pc + 2)]

\* the modes that load nothing
LOAD_NONE(pc) == [operands |-> <<>>, word_operand |-> 0, reads |-> <<>>, pc |-> pc]

(***************************************************************************)
(* append_cycle: the text it appends to the line.                          *)
(***************************************************************************)
\* an append_cycle that applies the static page test of the branches to
\* every entry with a penalty flag
append_cycle_static_page(entry, pc, new_pc) ==
    LET cycles == opcode_entry(entry).cycles
        exceptions == opcode_entry(entry).cycles_exceptions % (CYCLE_MASK + 1)
        crosses_page == PageBits(pc) # PageBits(new_pc)
    IN  IF exceptions # 0
        THEN IF crosses_page
             THEN " Cycles: " \o FmtD(cycles + 1) \o "/" \o FmtD(cycles + 2)
             ELSE " Cycles: " \o FmtD(cycles) \o "/" \o FmtD(cycles + 1)
        ELSE " Cycles: " \o FmtD(cycles)

\* an append_cycle that prints the whole range of a branch crossing a page,
\* from the base count to the base count + 2
append_cycle_whole_range(entry, pc, new_pc) ==
    LET cycles == opcode_entry(entry).cycles
        exceptions == opcode_entry(entry).cycles_exceptions % (CYCLE_MASK + 1)
        crosses_page == PageBits(pc) # PageBits(new_pc)
    IN  IF exceptions # 0
        THEN IF HasFlag(exceptions, CYCLE_BRANCH) /\ HasFlag(exceptions, CYCLE_PAGE)
             THEN IF crosses_page
                  THEN " Cycles: " \o FmtD(cycles) \o "/" \o FmtD(cycles + 2)
                  ELSE " Cycles: " \o FmtD(cycles) \o "/" \o FmtD(cycles + 1)
             ELSE " Cycles: " \o FmtD(cycles) \o "/" \o FmtD(cycles + 1)
        ELSE " Cycles: " \o FmtD(cycles)

append_cycle(entry, pc, new_pc) ==
    LET cycles == opcode_entry(entry).cycles
        exceptions == opcode_entry(entry).cycles_exceptions % (CYCLE_MASK + 1)
        crosses_page == PageBits(pc) # PageBits(new_pc)
    IN  IF exceptions # 0
        THEN IF HasFlag(exceptions, CYCLE_BRANCH) /\ HasFlag(exceptions, CYCLE_PAGE)
             THEN IF crosses_page
                  THEN " Cycles: " \o FmtD(cycles + 1) \o "/" \o FmtD(cycles + 2)
                  ELSE " Cycles: " \o FmtD(cycles) \o "/" \o FmtD(cycles + 1)
             ELSE " Cycles: " \o FmtD(cycles) \o "/" \o FmtD(cycles + 1)
        ELSE " Cycles: " \o FmtD(cycles)

(***************************************************************************)
(* append_nes: the text it appends to the line.                            *)
(***************************************************************************)
add_nes_str(instr2) == " [NES] " \o instr2

append_nes(arg) ==
    CASE arg = 8192 -> add_nes_str("PPU setup #1")
      [] arg = 8193 -> add_nes_str("PPU setup #2")
      [] arg = 8194 -> add_nes_str("PPU status")
      [] arg = 8195 -> add_nes_str("SPR-RAM address select")
      [] arg = 8196 -> add_nes_str("SPR-RAM data")
      [] arg = 8197 -> add_nes_str("PPU scroll")
      [] arg = 8198 -> add_nes_str("VRAM address select")
      [] arg = 8199 -> add_nes_str("VRAM data")
      [] arg \in 16384..16387 -> add_nes_str("Audio -> Square 1")
      [] arg \in 16388..16391 -> add_nes_str("Audio -> Square 2")
      [] arg \in 16392..16395 -> add_nes_str("Audio -> Triangle")
      [] arg = 16396 -> add_nes_str("Audio -> Noise control reg")
      [] arg = 16398 -> add_nes_str("Audio -> Noise Frequency reg #1")
      [] arg = 16399 -> add_nes_str("Audio -> Noise Frequency reg #2")
      [] arg = 16400 -> add_nes_str("Audio -> DPCM control")
      [] arg = 16401 -> add_nes_str("Audio -> DPCM D/A data")
      [] arg = 16402 -> add_nes_str("Audio -> DPCM address")
      [] arg = 16403 -> add_nes_str("Audio -> DPCM data length")
      [] arg = 16404 -> add_nes_str("Sprite DMA trigger")
      [] arg = 16405 -> add_nes_str("IRQ status / Sound enable")
      [] arg = 16406 -> add_nes_str("Joypad & I/O port for port #1")
      [] arg = 16407 -> add_nes_str("Joypad & I/O port for port #2")
      [] OTHER -> ""

(***************************************************************************)
(* The hex dump column of disassemble.                                     *)
(***************************************************************************)
\* HEXDUMP_APPLE_0() sprintf(hex_dump, "$%04X", current_addr)
HEXDUMP_0(options, current_addr) ==
    IF options.apple2_output
    THEN Fmt0X(4, current_addr) \o ":"
    ELSE "$" \o Fmt0X(4, current_addr)

\* if (options->hex_output) { HEXDUMP_APPLE_1() sprintf(hex_dump, "$%04X> %02X:", ...) }
HEXDUMP_1(options, current_addr, opcode) ==
    IF ~options.hex_output THEN HEXDUMP_0(options, current_addr)
    ELSE IF options.apple2_output
    THEN Fmt0X(4, current_addr) \o ":" \o Fmt0X(2, opcode) \o "        "
    ELSE "$" \o Fmt0X(4, current_addr) \o "> " \o Fmt0X(2, opcode) \o ":"

HEXDUMP_2(options, current_addr, opcode, byte_operand) ==
    IF ~options.hex_output THEN HEXDUMP_0(options, current_addr)
    ELSE IF options.apple2_output
    THEN Fmt0X(4, current_addr) \o ":" \o Fmt0X(2, opcode) \o " " \o Fmt0X(2, byte_operand) \o "    "
    ELSE "$" \o Fmt0X(4, current_addr) \o "> " \o Fmt0X(2, opcode) \o " " \o Fmt0X(2, byte_operand) \o ":"

HEXDUMP_3(options, current_addr, opcode, word_operand) ==
    IF ~options.hex_output THEN HEXDUMP_0(options, current_addr)
    ELSE IF options.apple2_output
    THEN Fmt0X(4, current_addr) \o ":" \o Fmt0X(2, opcode) \o " " \o Fmt0X(2, LOW_PART(word_operand)) \o " " \o Fmt0X(2, HIGH_PART(word_operand))
    ELSE "$" \o Fmt0X(4, current_addr) \o "> " \o Fmt0X(2, opcode) \o " " \o Fmt0X(2, LOW_PART(word_operand)) \o Fmt0X(2, HIGH_PART(word_operand)) \o ":"

(***************************************************************************)
(* disassemble.                                                            *)
(***************************************************************************)
\* a negative displacement taken as the one's complement, without the + 1
RelativeTarget_no_plus_one(current_addr, byte_operand) ==
    IF byte_operand > 127
    THEN u16(u16(current_addr + 2) - (127 - (byte_operand % 128)))
    ELSE u16(u16(current_addr + 2) + (byte_operand % 128))

\* case RELAT: the displacement, from the first byte after the full instruction:
\* word_operand = current_addr + 2;
\* if (byte_operand > 0x7Fu) word_operand -= ((~byte_operand & 0x7Fu) + 1);
\* else word_operand += byte_operand & 0x7Fu;
\* (~b & 0x7F is 127 - (b & 0x7F), and every assignment reduces to 16 bits)
RelativeTarget(current_addr, byte_operand) ==
    IF byte_operand > 127
    THEN u16(u16(current_addr + 2) - ((127 - (byte_operand % 128)) + 1))
    ELSE u16(u16(current_addr + 2) + (byte_operand % 128))

\* The operand load of each case of the addressing switch; pc is *pc after
\* the "*pc += 1" of the opcode byte.
LoadOperand(addressing, buffer, pc) ==
    CASE addressing \in {IMMED, ZEROP, ZEPIX, ZEPIY, INDIN, ININD, RELAT} -> LOAD_BYTE(buffer, pc)
      [] addressing \in {ABSOL, INDIA, ABSIX, ABSIY} -> LOAD_WORD(buffer, pc)
      [] OTHER -> LOAD_NONE(pc)

\* word_operand at the end of the addressing switch
WordOperand(addressing, current_addr, ld) ==
    IF addressing = RELAT THEN RelativeTarget(current_addr, ld.byte_operand) ELSE ld.word_operand

\* sprintf(opcode_repr, ...) of each case of the addressing switch
OpcodeRepr(addressing, mnemonic, ld, word_operand) ==
    CASE addressing = IMMED -> mnemonic \o " #$" \o Fmt0X(2, ld.byte_operand)
      [] addressing = ABSOL -> mnemonic \o " $" \o Fmt0X(2, HIGH_PART(word_operand)) \o Fmt0X(2, LOW_PART(word_operand))
      [] addressing = ZEROP -> mnemonic \o " $" \o Fmt0X(2, ld.byte_operand)
      [] addressing = IMPLI -> mnemonic
      [] addressing = INDIA -> mnemonic \o " ($" \o Fmt0X(2, HIGH_PART(word_operand)) \o Fmt0X(2, LOW_PART(word_operand)) \o ")"
      [] addressing = ABSIX -> mnemonic \o " $" \o Fmt0X(2, HIGH_PART(word_operand)) \o Fmt0X(2, LOW_PART(word_operand)) \o ",X"
      [] addressing = ABSIY -> mnemonic \o " $" \o Fmt0X(2, HIGH_PART(word_operand)) \o Fmt0X(2, LOW_PART(word_operand)) \o ",Y"
      [] addressing = ZEPIX -> mnemonic \o " $" \o Fmt0X(2, ld.byte_operand) \o ",X"
      [] addressing = ZEPIY -> mnemonic \o " $" \o Fmt0X(2, ld.byte_operand) \o ",Y"
      [] addressing = INDIN -> mnemonic \o " ($" \o Fmt0X(2, ld.byte_operand) \o ",X)"
      [] addressing = ININD -> mnemonic \o " ($" \o Fmt0X(2, ld.byte_operand) \o "),Y"
      [] addressing = RELAT -> mnemonic \o " $" \o Fmt0X(4, word_operand)
      [] addressing = ACCUM -> mnemonic \o " A"
      [] OTHER -> ""

\* the hex dump of each case of the addressing switch
HexDump(addressing, options, current_addr, opcode, ld) ==
    CASE addressing \in {IMMED, ZEROP, ZEPIX, ZEPIY, INDIN, ININD, RELAT} -> HEXDUMP_2(options, current_addr, opcode, ld.byte_operand)
      [] addressing \in {ABSOL, INDIA, ABSIX, ABSIY} -> HEXDUMP_3(options, current_addr, opcode, ld.word_operand)
      [] addressing \in {IMPLI, ACCUM} -> HEXDUMP_1(options, current_addr, opcode)
      [] OTHER -> HEXDUMP_0(options, current_addr)

\* an annotation written whatever options->cycle_counting is
CycleAnnotation_always(options, opcode, pc, word_operand) == append_cycle(opcode, u16(pc + 1), word_operand)

\* if (options->cycle_counting) output = append_cycle(output, opcode, *pc + 1, word_operand);
CycleAnnotation(options, opcode, pc, word_operand) ==
    IF options.cycle_counting THEN append_cycle(opcode, u16(pc + 1), word_operand) ELSE ""

\* an annotation that also takes the operand of IndirectAbsolute
NesAnnotation_with_indirect(options, addressing, word_operand) ==
    IF addressing \in {ABSOL, ABSIX, ABSIY, INDIA} /\ options.nes_mode THEN append_nes(word_operand) ELSE ""

\* switch (addressing) { case ABSOL: case ABSIX: case ABSIY: if (options->nes_mode) append_nes(...) }
NesAnnotation(options, addressing, word_operand) ==
    IF addressing \in {ABSOL, ABSIX, ABSIY} /\ options.nes_mode THEN append_nes(word_operand) ELSE ""

\* an opcode not found that falls through to the annotations instead of
\* returning early
DisassembleBad_annotated(buffer, options, current_addr, opcode) ==
    LET opcode_repr == ".byte $" \o Fmt0X(2, opcode)
        hex_dump == IF options.omit_opcodes THEN "" ELSE HEXDUMP_1(options, current_addr, opcode)
        cycle_str == CycleAnnotation(options, opcode, u16(current_addr + 1), 0)
    IN  [ pc |-> u16(current_addr + 1),
          output |-> DUMP_FORMAT(options, hex_dump, opcode_repr) \o " INVALID OPCODE !!!" \o cycle_str,
          current_addr |-> current_addr, opcode |-> opcode, found |-> FALSE,
          operands |-> <<>>, word_operand |-> 0,
          hex_dump |-> hex_dump, opcode_repr |-> opcode_repr,
          cycle_pc |-> 0, cycle_str |-> cycle_str, nes_str |-> "",
          reads |-> <<current_addr>> ]

\* The early return for an opcode not found.
DisassembleBad(buffer, options, current_addr, opcode) ==
    LET opcode_repr == ".byte $" \o Fmt0X(2, opcode)
        hex_dump == IF options.omit_opcodes THEN "" ELSE HEXDUMP_1(options, current_addr, opcode)
    IN  [ pc |-> u16(current_addr + 1),
          output |-> DUMP_FORMAT(options, hex_dump, opcode_repr) \o " INVALID OPCODE !!!",
          current_addr |-> current_addr, opcode |-> opcode, found |-> FALSE,
          operands |-> <<>>, word_operand |-> 0,
          hex_dump |-> hex_dump, opcode_repr |-> opcode_repr,
          cycle_pc |-> 0, cycle_str |-> "", nes_str |-> "",
          reads |-> <<current_addr>> ]

\* The decode of an opcode found in the table.
DisassembleFound(buffer, options, current_addr, opcode) ==
    LET entry == opcode_entry(opcode)
        addressing == entry.addressing
        ld == LoadOperand(addressing, buffer, u16(current_addr + 1))
        word_operand == WordOperand(addressing, current_addr, ld)
        opcode_repr == OpcodeRepr(addressing, entry.mnemonic, ld, word_operand)
        hex_dump == IF options.omit_opcodes THEN "" ELSE HexDump(addressing, options, current_addr, opcode, ld)
        cycle_str == CycleAnnotation(options, opcode, ld.pc, word_operand)
        nes_str == NesAnnotation(options, addressing, word_operand)
    IN  [ pc |-> ld.pc,
          output |-> DUMP_FORMAT(options, hex_dump, opcode_repr) \o cycle_str \o nes_str,
          current_addr |-> current_addr, opcode |-> opcode, found |-> TRUE,
          operands |-> ld.operands, word_operand |-> word_operand,
          hex_dump |-> hex_dump, opcode_repr |-> opcode_repr,
          cycle_pc |-> u16(ld.pc + 1), cycle_str |-> cycle_str, nes_str |-> nes_str,
          reads |-> <<current_addr>> \o ld.reads ]

\* disassemble(output, buffer, options, pc): the new *pc, the line written to
\* output, and the locals of the call at its return (reads: the buffer
\* indices the call read, in order).
disassemble(buffer, options, pc) ==
    LET current_addr == pc
        opcode == ReadCell(buffer, current_addr)
        found == ~HasFlag(opcode_entry(opcode).cycles_exceptions, BAD)
    IN  IF ~found
        THEN DisassembleBad(buffer, options, current_addr, opcode)
        ELSE DisassembleFound(buffer, options, current_addr, opcode)

(***************************************************************************)
(* Bounds of the model.                                                    *)
(***************************************************************************)
\* the longest file loaded (options.max_num_bytes after main's clamps)
MaxLen == 3

\* the decode calls of the loop that are followed
MaxCalls == 5

\* how many addresses below the top of the address space are taken as
\* origins and as decode offsets
Window == 3

\* parse_args: options->org = 0x8000
DEFAULT_ORG == 32768

BOOL2 == {FALSE, TRUE}

\* the switches of parse_args that disassemble reads: any combination
Switches == [nes_mode : BOOL2, cycle_counting : BOOL2, hex_output : BOOL2, apple2_output : BOOL2, omit_opcodes : BOOL2]

Options(sw, org, max_num_bytes) == [nes_mode |-> sw.nes_mode, cycle_counting |-> sw.cycle_counting, hex_output |-> sw.hex_output, apple2_output |-> sw.apple2_output, omit_opcodes |-> sw.omit_opcodes, org |-> org, max_num_bytes |-> max_num_bytes]

\* bytes of the files loaded by the loop's runs: BRK (implied), an illegal
\* opcode, LDA #imm, LDA abs, BEQ rel, and $FF (illegal; as an operand, -1)
FileBytes == {0, 2, 169, 173, 240, 255}

\* origins of the loop's runs
Origins == {0, DEFAULT_ORG} \cup ((UINT16_RANGE - Window) .. (UINT16_RANGE - 1))

\* offsets of the single decode calls: the bottom of the address space, the
\* default origin, $80FD (the instruction ends on the last byte of a page)
\* and the top of the address space
DecodeOffsets == {0, DEFAULT_ORG, DEFAULT_ORG + 253} \cup ((UINT16_RANGE - Window) .. (UINT16_RANGE - 1))

\* first operand bytes: 0, +1, +127, -128, -2, -1
OperandBytes == {0, 1, 127, 128, 254, 255}

\* second operand bytes: page $00 and page $20
SecondBytes == {0, 32}

\* bytes at the bottom of the buffer, where a cursor that wrapped reads
LowBytes == {0, 64}

(***************************************************************************)
(* State.                                                                  *)
(***************************************************************************)
VARIABLES
    buffer,    \* the cells of main's buffer that were written (the rest is 0)
    options,   \* options_t after parse_args and main's clamps
    pc,        \* main's uint16_t pc, the cursor disassemble advances
    end,       \* main's size_t end, the stop bound
    output,    \* tmpstr, the line of the last decode call
    frame,     \* the locals of the last disassemble call at its return
    calls,     \* decode calls made so far
    stage,     \* "start" | "loop" | "done" for main; "call" | "returned" for one call
    input_file, \* the file main opens: its size and its bytes
    history,   \* the locals of every disassemble call made so far, in order
    argv,      \* main's argv: the program name and the arguments, each a string of characters
    arg_idx,   \* parse_args' arg_idx
    exit_code  \* the status the process exited with, or NoExit

vars == <<buffer, options, pc, end, output, frame, calls, stage, input_file, history, argv, arg_idx, exit_code>>

\* the command line and the exit status
cmdline == <<argv, arg_idx, exit_code>>

\* the process has not exited
NoExit == -1

\* parse_args has returned: the command line is left behind
ArgsLeftBehind == argv = <<>> /\ arg_idx = 0 /\ exit_code = NoExit

\* the input file once main has closed it (fclose, line 913)
ClosedFile == "closed"

\* before the first call
NoFrame == [pc |-> 0, output |-> "", current_addr |-> 0, opcode |-> 0, found |-> FALSE, operands |-> <<>>, word_operand |-> 0, hex_dump |-> "", opcode_repr |-> "", cycle_pc |-> 0, cycle_str |-> "", nes_str |-> "", reads |-> <<>>]

(***************************************************************************)
(* main from the fread on: the buffer holds the file at org, the loop      *)
(* decodes from pc = org while pc < end.                                   *)
(***************************************************************************)
Init ==
    \E org \in Origins, n \in 0 .. MaxLen, sw \in Switches :
        /\ org + n <= UINT16_RANGE
        /\ \E file \in [1 .. n -> FileBytes] :
               buffer = [i \in org .. (org + n - 1) |-> file[i - org + 1]]
        /\ options = Options(sw, org, n)
        /\ pc = org
        /\ end = org + n
        /\ output = ""
        /\ frame = NoFrame
        /\ calls = 0
        /\ stage = "loop"
        /\ input_file = ClosedFile
        /\ history = <<>>
        /\ ArgsLeftBehind

\* while (pc < end) { disassemble(tmpstr, buffer, &options, &pc); ... }
LoopStep ==
    /\ stage = "loop"
    /\ pc < end
    /\ calls < MaxCalls
    /\ LET r == disassemble(buffer, options, pc)
       IN  /\ frame' = r
           /\ pc' = r.pc
           /\ output' = r.output
    /\ calls' = calls + 1
    /\ history' = Append(history, disassemble(buffer, options, pc))
    /\ UNCHANGED <<buffer, options, end, stage, input_file>>
    /\ UNCHANGED cmdline

\* the loop's exit: pc < end is false
LoopExit ==
    /\ stage = "loop"
    /\ ~(pc < end)
    /\ stage' = "done"
    /\ UNCHANGED <<buffer, options, pc, end, output, frame, calls, input_file, history>>
    /\ UNCHANGED cmdline

Next == LoopStep \/ LoopExit

Spec == Init /\ [][Next]_vars

(***************************************************************************)
(* One call of disassemble on any buffer, at any offset, under any         *)
(* switches.  disassemble takes the buffer as an argument: the cells of    *)
(* the padding are not held to the zeros main leaves there.                *)
(***************************************************************************)
\* the cells at offset, offset + 1, offset + 2, and the cells a wrapped
\* cursor reads instead
BufferAt(p, op, b1, b2, lo) ==
    LET wrapped == {u16(p + 1), u16(p + 2)} \ {p + 1, p + 2}
    IN  [i \in {p, p + 1, p + 2} \cup wrapped |->
            IF i = p THEN op ELSE IF i = p + 1 THEN b1 ELSE IF i = p + 2 THEN b2 ELSE lo]

InitDecode ==
    \E p \in DecodeOffsets, op \in 0 .. (UINT8_RANGE - 1), b1 \in OperandBytes, b2 \in SecondBytes, lo \in LowBytes, sw \in Switches :
        /\ buffer = BufferAt(p, op, b1, b2, lo)
        /\ options = Options(sw, DEFAULT_ORG, 0)
        /\ pc = p
        /\ end = 0
        /\ output = ""
        /\ frame = NoFrame
        /\ calls = 0
        /\ stage = "call"
        /\ input_file = ClosedFile
        /\ history = <<>>
        /\ ArgsLeftBehind

Call ==
    /\ stage = "call"
    /\ LET r == disassemble(buffer, options, pc)
       IN  /\ frame' = r
           /\ pc' = r.pc
           /\ output' = r.output
    /\ calls' = calls + 1
    /\ stage' = "returned"
    /\ history' = Append(history, disassemble(buffer, options, pc))
    /\ UNCHANGED <<buffer, options, end, input_file>>
    /\ UNCHANGED cmdline

NextDecode == Call

SpecDecode == InitDecode /\ [][NextDecode]_vars

(***************************************************************************)
(* The table lookups: each byte value decoded once at the default origin.  *)
(***************************************************************************)
InitTable ==
    \E op \in 0 .. (NUMBER_OPCODES - 1), sw \in Switches :
        /\ buffer = BufferAt(DEFAULT_ORG, op, 0, 0, 0)
        /\ options = Options(sw, DEFAULT_ORG, 0)
        /\ pc = DEFAULT_ORG
        /\ end = 0
        /\ output = ""
        /\ frame = NoFrame
        /\ calls = 0
        /\ stage = "call"
        /\ input_file = ClosedFile
        /\ history = <<>>
        /\ ArgsLeftBehind

NextTable == Call

SpecTable == InitTable /\ [][NextTable]_vars

(***************************************************************************)
(* The branches: each Relative-mode opcode with each operand byte.         *)
(***************************************************************************)
RelativeOpcodes == {op \in 0 .. (NUMBER_OPCODES - 1) : ~HasFlag(opcode_entry(op).cycles_exceptions, BAD) /\ opcode_entry(op).addressing = RELAT}

InitBranch ==
    \E p \in DecodeOffsets, op \in RelativeOpcodes, b1 \in 0 .. (UINT8_RANGE - 1), lo \in LowBytes, sw \in Switches :
        /\ buffer = BufferAt(p, op, b1, 0, lo)
        /\ options = Options(sw, DEFAULT_ORG, 0)
        /\ pc = p
        /\ end = 0
        /\ output = ""
        /\ frame = NoFrame
        /\ calls = 0
        /\ stage = "call"
        /\ input_file = ClosedFile
        /\ history = <<>>
        /\ ArgsLeftBehind

NextBranch == Call

SpecBranch == InitBranch /\ [][NextBranch]_vars

(***************************************************************************)
(* disassemble called again and again on one buffer under one set of       *)
(* options, each time at an offset the caller chooses for the cursor it    *)
(* owns.  The only storage of a call that outlives it is the caller's      *)
(* output array: the first sprintf of the call (line 496 or 656) writes    *)
(* the line from its first character, whatever the array held.             *)
(***************************************************************************)
\* opcodes at the first offset: BRK, an illegal opcode, LDA #imm, LDA abs, BEQ rel
RepeatOpcodes == {0, 2, 169, 173, 240}

\* the offsets the caller alternates between: an instruction and its operand byte
RepeatOffsets == {DEFAULT_ORG, DEFAULT_ORG + 1}

InitRepeat ==
    \E op \in RepeatOpcodes, b1 \in OperandBytes, b2 \in SecondBytes, sw \in Switches :
        /\ buffer = BufferAt(DEFAULT_ORG, op, b1, b2, 0)
        /\ options = Options(sw, DEFAULT_ORG, 0)
        /\ pc = DEFAULT_ORG
        /\ end = 0
        /\ output = ""
        /\ frame = NoFrame
        /\ calls = 0
        /\ stage = "call"
        /\ input_file = ClosedFile
        /\ history = <<>>
        /\ ArgsLeftBehind

\* a call whose line is appended to what the output array held (strcat in
\* place of the first sprintf)
CallAt_appends_line ==
    /\ stage = "call"
    /\ calls < MaxCalls
    /\ \E q \in RepeatOffsets :
           LET r == [disassemble(buffer, options, q) EXCEPT !.output = output \o @]
           IN  /\ frame' = r
               /\ pc' = r.pc
               /\ output' = r.output
               /\ history' = Append(history, r)
    /\ calls' = calls + 1
    /\ UNCHANGED <<buffer, options, end, stage, input_file>>
    /\ UNCHANGED cmdline

\* a call that clears options->omit_opcodes where the code clears hex_dump[0]
\* (lines 494-495, 653-654)
CallAt_clears_option ==
    /\ stage = "call"
    /\ calls < MaxCalls
    /\ \E q \in RepeatOffsets :
           LET r == disassemble(buffer, options, q)
           IN  /\ frame' = r
               /\ pc' = r.pc
               /\ output' = r.output
               /\ history' = Append(history, r)
    /\ calls' = calls + 1
    /\ options' = [options EXCEPT !.omit_opcodes = FALSE]
    /\ UNCHANGED <<buffer, end, stage, input_file>>
    /\ UNCHANGED cmdline

\* pc = q; disassemble(tmpstr, buffer, &options, &pc);
CallAt ==
    /\ stage = "call"
    /\ calls < MaxCalls
    /\ \E q \in RepeatOffsets :
           LET r == disassemble(buffer, options, q)
           IN  /\ frame' = r
               /\ pc' = r.pc
               /\ output' = r.output
               /\ history' = Append(history, r)
    /\ calls' = calls + 1
    /\ UNCHANGED <<buffer, options, end, stage, input_file>>
    /\ UNCHANGED cmdline

NextRepeat == CallAt

SpecRepeat == InitRepeat /\ [][NextRepeat]_vars

(***************************************************************************)
(* The register annotations: each byte value decoded once with operand     *)
(* words in and around the register ranges of append_nes.                  *)
(***************************************************************************)
\* operand words: $1FFE-$2009 and $3FFE-$4019 (the registers and their
\* neighbours, $400D among them), $0000, $0020, $0040 and $2100
NesOperands == (8190 .. 8201) \cup (16382 .. 16409) \cup {0, 32, 64, 8448}

\* offsets: the default origin, and $1FFE, from where a branch with operand 0
\* resolves to $2000
NesOffsets == {DEFAULT_ORG, 8190}

InitNes ==
    \E p \in NesOffsets, op \in 0 .. (UINT8_RANGE - 1), w \in NesOperands, sw \in Switches :
        /\ buffer = BufferAt(p, op, LOW_PART(w), HIGH_PART(w), 0)
        /\ options = Options(sw, DEFAULT_ORG, 0)
        /\ pc = p
        /\ end = 0
        /\ output = ""
        /\ frame = NoFrame
        /\ calls = 0
        /\ stage = "call"
        /\ input_file = ClosedFile
        /\ history = <<>>
        /\ ArgsLeftBehind

NextNes == Call

SpecNes == InitNes /\ [][NextNes]_vars

(***************************************************************************)
(* main from the opened file to the loop: the clamps of the size, of the   *)
(* length and of the origin, the fread, and pc and end.                    *)
(*                                                                         *)
(* size, start_offset and max_num_bytes are size_t and unsigned long: a    *)
(* value is held as the integer congruent to it modulo ULONG_MAX + 1 that  *)
(* is nearest to zero, so a negative integer d stands for the wrapped      *)
(* value ULONG_MAX + 1 + d.                                                *)
(***************************************************************************)
\* x > c for an unsigned long x held as above and a small constant c
ulong_gt(x, c) == x < 0 \/ x > c

\* options_t after parse_args (lines 747-755, 786, 806-807, 819)
ParsedOptions(sw, org, start_offset, user_length, max_num_bytes) == [nes_mode |-> sw.nes_mode, cycle_counting |-> sw.cycle_counting, hex_output |-> sw.hex_output, apple2_output |-> sw.apple2_output, omit_opcodes |-> sw.omit_opcodes, org |-> org, start_offset |-> start_offset, user_length |-> user_length, max_num_bytes |-> max_num_bytes]

\* the byte of the file at position i (a file is its size and the bytes it
\* repeats)
FileByte(f, i) == f.pattern[(i % Len(f.pattern)) + 1]

\* if (size > 0x10000) size = 0x10000;
ClampSize(size) == IF size > 65536 THEN 65536 ELSE size

\* if (!options.user_length) options.max_num_bytes = size;
DefaultLength(opts, size) == IF ~opts.user_length THEN size ELSE opts.max_num_bytes

\* if ((options.start_offset + options.max_num_bytes) > size)
\*     options.max_num_bytes = size - options.start_offset;
ClampLength(opts, size, max_num_bytes) ==
    IF ulong_gt(opts.start_offset + max_num_bytes, size) THEN size - opts.start_offset ELSE max_num_bytes

\* a test of the start offset that never skips the file
StartPastSize_never(opts, size) == FALSE

\* if (options.start_offset > size) { options.max_num_bytes = 0; goto done_file; }
StartPastSize(opts, size) == opts.start_offset > size

\* an origin clamp that leaves the length as it is
ClampOrigin_none(opts, max_num_bytes) == max_num_bytes

\* if ((options.org + options.max_num_bytes) > 0x10000)
\*     options.max_num_bytes = 0x10000 - options.org;
ClampOrigin(opts, max_num_bytes) ==
    IF ulong_gt(opts.org + max_num_bytes, 65536) THEN 65536 - opts.org ELSE max_num_bytes

\* options.max_num_bytes at done_file, and whether the fread was skipped
LoadPlan(opts, file_size) ==
    LET size == ClampSize(file_size)
        length == ClampLength(opts, size, DefaultLength(opts, size))
    IN  IF StartPastSize(opts, size)
        THEN [size |-> size, max_num_bytes |-> 0, skipped |-> TRUE]
        ELSE [size |-> size, max_num_bytes |-> ClampOrigin(opts, length), skipped |-> FALSE]

\* fread(&buffer[org], n, 1, input_file) with the file positioned at pos: the
\* bytes the file still has from pos on, at most n of them, stored from
\* buffer[org] on (the cells written; the rest of the calloc'ed buffer is 0)
Fread(org, n, f, pos) ==
    LET available == IF f.size > pos THEN f.size - pos ELSE 0
        count == IF ulong_gt(n, available) THEN available ELSE n
    IN  [i \in org .. (org + count - 1) |-> FileByte(f, pos + (i - org))]

\* the sizes of the files: empty, a few bytes, and around 64K
MainSizes == (0 .. MaxLen) \cup {65535, 65536, 65537}

\* -b: none, a few bytes, and around 64K
MainStarts == (0 .. (MaxLen + 1)) \cup {65536, 65537, 65538}

\* -m: a few bytes, and the 0x10000 parse_args clamps a larger value to
MainLengths == (0 .. MaxLen) \cup {65536}

\* the option switches all off and all on
MainSwitches == {sw \in Switches : \A f \in DOMAIN sw : sw[f] = sw.nes_mode}

\* the bytes a file repeats: LDA #imm, LDA abs, BEQ; illegal, BRK, illegal
FilePatterns == {<<169, 173, 240>>, <<2, 0, 255>>}

InitMain ==
    \E n \in MainSizes, pat \in FilePatterns, b \in MainStarts, org \in Origins, sw \in MainSwitches, user_length \in BOOL2 :
        \E m \in IF user_length THEN MainLengths ELSE {65536} :
            /\ input_file = [size |-> n, pattern |-> pat]
            /\ options = ParsedOptions(sw, org, b, user_length, m)
            /\ buffer = <<>>
            /\ pc = 0
            /\ end = 0
            /\ output = ""
            /\ frame = NoFrame
            /\ calls = 0
            /\ stage = "start"
            /\ history = <<>>
            /\ ArgsLeftBehind

\* main, lines 873-917
MainLoad ==
    /\ stage = "start"
    /\ LET plan == LoadPlan(options, input_file.size)
       IN  /\ options' = [options EXCEPT !.max_num_bytes = plan.max_num_bytes]
           /\ buffer' = IF plan.skipped THEN <<>> ELSE Fread(options.org, plan.max_num_bytes, input_file, options.start_offset)
           /\ pc' = options.org
           /\ end' = options.org + plan.max_num_bytes
    /\ stage' = "loop"
    /\ UNCHANGED <<output, frame, calls, input_file, history>>
    /\ UNCHANGED cmdline

NextMain == MainLoad \/ LoopStep \/ LoopExit

SpecMain == InitMain /\ [][NextMain]_vars

(***************************************************************************)
(* parse_args.  An argument is the sequence of its characters; a C string  *)
(* ends with a NUL, which is what an index at or past its length reads.    *)
(***************************************************************************)
NUL == ""

\* str[k], k counted from 0 as in C
CharAt(str, k) == IF k < Len(str) THEN str[k + 1] ELSE NUL

\* the value of a character as a digit, 99 when it is none
DigitValue(c) ==
    CASE c = "0" -> 0 [] c = "1" -> 1 [] c = "2" -> 2 [] c = "3" -> 3 [] c = "4" -> 4
      [] c = "5" -> 5 [] c = "6" -> 6 [] c = "7" -> 7 [] c = "8" -> 8 [] c = "9" -> 9
      [] c \in {"a", "A"} -> 10 [] c \in {"b", "B"} -> 11 [] c \in {"c", "C"} -> 12
      [] c \in {"d", "D"} -> 13 [] c \in {"e", "E"} -> 14 [] c \in {"f", "F"} -> 15
      [] OTHER -> 99

\* the digits of strtoul from C index k on: the value, and endptr as a C index
RECURSIVE strtoul_digits(_, _, _, _)
strtoul_digits(str, k, base, acc) ==
    IF k < Len(str) /\ DigitValue(CharAt(str, k)) < base
    THEN strtoul_digits(str, k + 1, base, acc * base + DigitValue(CharAt(str, k)))
    ELSE [value |-> acc, endptr |-> k]

\* strtoul(str, &endptr, 0) on a string without white space or sign: "0x"
\* before a hex digit selects base 16, another leading "0" base 8, anything
\* else base 10; no digit leaves endptr at the start
strtoul(str) ==
    IF CharAt(str, 0) = "0" /\ CharAt(str, 1) \in {"x", "X"} /\ DigitValue(CharAt(str, 2)) < 16
    THEN strtoul_digits(str, 2, 16, 0)
    ELSE IF CharAt(str, 0) = "0"
         THEN strtoul_digits(str, 0, 8, 0)
         ELSE strtoul_digits(str, 0, 10, 0)

\* str_arg_to_ulong: 0 when *endptr is not the NUL, else 1 and the value
\* (tmp is a uint32_t; it holds the values followed here, all below 2^31,
\* unchanged, and none of them sets errno)
str_arg_to_ulong(str) ==
    LET r == strtoul(str)
    IN  IF CharAt(str, r.endptr) # NUL
        THEN [ok |-> FALSE, value |-> 0]
        ELSE [ok |-> TRUE, value |-> r.value]

\* argc
argc == Len(argv)

\* argv[k], k counted from 0
Argument(k) == argv[k + 1]

\* (arg_idx == (argc - 1)) || (argv[arg_idx + 1][0] == '-')
MissingArgument(k) == (k = argc - 1) \/ (CharAt(Argument(k + 1), 0) = "-")

\* the outcome of a switch that takes no argument
Flag(opts, k) == [options |-> opts, arg_idx |-> k + 1, exit |-> NoExit]

\* usage_and_exit(code, ...), exit(code)
Exit(opts, k, code) == [options |-> opts, arg_idx |-> k, exit |-> code]

\* case 'b', 'm', 'o': the argument of the switch at k, then the assignment
ValueSwitch(opts, k, letter) ==
    IF MissingArgument(k)
    THEN Exit(opts, k, 1)
    ELSE LET r == str_arg_to_ulong(Argument(k + 1))
         IN  IF ~r.ok
             THEN Exit(opts, k + 1, 1)
             ELSE CASE letter = "b" -> Flag([opts EXCEPT !.start_offset = r.value], k + 1)
                    [] letter = "m" -> Flag([opts EXCEPT !.max_num_bytes = IF r.value > 65536 THEN 65536 ELSE r.value, !.user_length = TRUE], k + 1)
                    [] letter = "o" -> Flag([opts EXCEPT !.org = r.value % 65536], k + 1)

\* switch (argv[arg_idx][1]) { ... } arg_idx++;
Switch(opts, k) ==
    LET arg == Argument(k)
        letter == CharAt(arg, 1)
    IN  CASE letter \in {"?", "h"} -> Exit(opts, k, 0)
          [] letter = "a" ->
                 IF (Len(arg) - 1 > 1) /\ (arg # <<"-", "a", "p", "p", "l", "e">>)
                 THEN Exit(opts, k, 1)
                 ELSE Flag([opts EXCEPT !.apple2_output = TRUE], k)
          [] letter \in {"b", "m", "o"} -> ValueSwitch(opts, k, letter)
          [] letter = "c" -> Flag([opts EXCEPT !.cycle_counting = TRUE], k)
          [] letter = "d" -> Flag([opts EXCEPT !.hex_output = TRUE], k)
          [] letter = "n" -> Flag([opts EXCEPT !.nes_mode = TRUE], k)
          [] letter = "s" -> Flag([opts EXCEPT !.omit_opcodes = TRUE], k)
          [] letter = "v" -> Exit(opts, k, 0)
          [] OTHER -> Exit(opts, k, 1)

\* the longest command line followed, in arguments after the program name
MaxArgs == 3

\* argv[0]
ProgramName == <<"d", "c", "c">>

\* the arguments: every switch of the usage text, switches it does not
\* list ("-ab", "-dc", "-z", "-"), a file name, and numbers in hex,
\* decimal and (malformed) octal
ArgTokens == {
    <<"-", "a">>, <<"-", "a", "p", "p", "l", "e">>, <<"-", "a", "b">>,
    <<"-", "b">>, <<"-", "c">>, <<"-", "d">>, <<"-", "d", "c">>, <<"-", "h">>,
    <<"-", "m">>, <<"-", "n">>, <<"-", "o">>, <<"-", "s">>, <<"-", "v">>,
    <<"-", "?">>, <<"-", "z">>, <<"-">>,
    <<"r", "o", "m">>,
    <<"0", "x", "1", "8", "0", "0", "0">>, <<"6", "5", "5", "3", "7">>, <<"0", "8">>, <<"7">> }

\* main at the call of parse_args, and parse_args' first assignments
InitArgs ==
    \E n \in 0 .. MaxArgs :
        \E args \in [1 .. n -> ArgTokens] :
            /\ argv = <<ProgramName>> \o args
            /\ arg_idx = 1
            /\ exit_code = NoExit
            /\ options = [nes_mode |-> FALSE, cycle_counting |-> FALSE, hex_output |-> FALSE, apple2_output |-> FALSE, omit_opcodes |-> FALSE, org |-> DEFAULT_ORG, start_offset |-> 0, user_length |-> FALSE, max_num_bytes |-> 65536]
            /\ buffer = <<>>
            /\ pc = 0
            /\ end = 0
            /\ output = ""
            /\ frame = NoFrame
            /\ calls = 0
            /\ stage = "args"
            /\ input_file = ClosedFile
            /\ history = <<>>

\* one turn of while (arg_idx < argc) on an argument that starts with '-'
ParseSwitch ==
    /\ stage = "args"
    /\ arg_idx < argc
    /\ CharAt(Argument(arg_idx), 0) = "-"
    /\ LET r == Switch(options, arg_idx)
       IN  /\ options' = r.options
           /\ arg_idx' = r.arg_idx
           /\ exit_code' = r.exit
           /\ stage' = IF r.exit = NoExit THEN "args" ELSE "exit"
    /\ UNCHANGED <<buffer, pc, end, output, frame, calls, input_file, history, argv>>

\* the end of the loop: no argument left, or one that does not start with '-'
ParseFilename ==
    /\ stage = "args"
    /\ ~(arg_idx < argc /\ CharAt(Argument(arg_idx), 0) = "-")
    /\ IF arg_idx >= argc
       THEN /\ stage' = "exit"
            /\ exit_code' = 1
            /\ UNCHANGED options
       ELSE /\ stage' = "parsed"
            /\ exit_code' = exit_code
            /\ options' = [f \in DOMAIN options \cup {"filename"} |-> IF f = "filename" THEN Argument(arg_idx) ELSE options[f]]
    /\ UNCHANGED <<buffer, pc, end, output, frame, calls, input_file, history, argv, arg_idx>>

NextArgs == ParseSwitch \/ ParseFilename

SpecArgs == InitArgs /\ [][NextArgs]_vars

(***************************************************************************)
(* Vocabulary of the properties.                                           *)
(***************************************************************************)
\* a decode call has returned: frame, pc and output are its results
Called == calls > 0

\* the table entry of the opcode the last call decoded
FrameEntry == opcode_entry(frame.opcode)

\* the penalty flags of an entry
PenaltyFlags(e) == {f \in {CYCLE_PAGE, CYCLE_BRANCH} : HasFlag(e.cycles_exceptions, f)}

\* the operand width of each addressing mode, as the specification lists it
OperandWidthOf(addressing) ==
    CASE addressing \in {IMPLI, ACCUM} -> 0
      [] addressing \in {IMMED, ZEROP, ZEPIX, ZEPIY, INDIN, ININD, RELAT} -> 1
      [] addressing \in {ABSOL, INDIA, ABSIX, ABSIY} -> 2

\* a byte read as a signed two's-complement number
SignedByte(b) == IF b <= 127 THEN b ELSE b - 256

\* the annotations append_cycle can write
OneNumber(n) == " Cycles: " \o FmtD(n)
TwoNumbers(n, m) == " Cycles: " \o FmtD(n) \o "/" \o FmtD(m)

(***************************************************************************)
(* C1. For every buffer and every offset in [0, 65535] holding a valid     *)
(* opcode, one call of disassemble sets the cursor to exactly              *)
(* old offset + 1 + operand_width, as plain integers without reduction,    *)
(* operand_width being 0, 1 or 2 by the addressing mode alone.             *)
(* Fails: the cursor is a uint16_t, so at offset 65535 (and at 65534 with  *)
(* an operand) the sum is reduced modulo 65536.                            *)
(***************************************************************************)
C1_CursorIsPlainSum ==
    (Called /\ frame.found) =>
        pc = frame.current_addr + 1 + OperandWidthOf(FrameEntry.addressing)

(***************************************************************************)
(* C2. For every opcode byte whose table entry is marked BAD, at every     *)
(* offset and under every option setting, disassemble renders ".byte $XX"  *)
(* followed by the invalid-opcode marker, reads no operand byte, and       *)
(* advances the cursor by exactly 1, so that the next decode call starts   *)
(* at the byte immediately after it.                                       *)
(* Fails only at offset 65535, where the cursor of C1 wraps to 0.          *)
(***************************************************************************)
C2_InvalidOpcodeOneByte ==
    (Called /\ HasFlag(FrameEntry.cycles_exceptions, BAD)) =>
        /\ ~frame.found
        /\ frame.opcode_repr = ".byte $" \o Fmt0X(2, frame.opcode)
        /\ output = DUMP_FORMAT(options, frame.hex_dump, frame.opcode_repr) \o " INVALID OPCODE !!!"
        /\ frame.reads = <<frame.current_addr>>
        /\ frame.operands = <<>>
        /\ pc = frame.current_addr + 1

(***************************************************************************)
(* C3. For every Relative-mode opcode at every offset p with operand byte  *)
(* b, the resolved target is (p + 2 + s(b)) mod 65536, s(b) the signed     *)
(* value of b; this value is the one rendered in the text and the one      *)
(* passed to the page-cross analysis.  BCC ($90) with operand $FE at       *)
(* $8000 resolves to $8000.                                                *)
(***************************************************************************)
C3_RelativeTarget ==
    (Called /\ frame.found /\ FrameEntry.addressing = RELAT) =>
        LET p == frame.current_addr
            b == frame.operands[1]
            target == (p + 2 + SignedByte(b)) % 65536
        IN  /\ frame.word_operand = target
            /\ frame.opcode_repr = FrameEntry.mnemonic \o " $" \o Fmt0X(4, target)
            /\ options.cycle_counting => frame.cycle_str = append_cycle(frame.opcode, frame.cycle_pc, target)
            /\ (frame.opcode = 144 /\ p = 32768 /\ b = 254) => (target = 32768 /\ frame.opcode_repr = "BCC $8000")

\* BCC with operand $FE at $8000 was decoded as a branch to itself
C3_Witness ==
    /\ Called
    /\ frame.opcode = 144
    /\ frame.current_addr = 32768
    /\ frame.operands = <<254>>
    /\ frame.opcode_repr = "BCC $8000"

(***************************************************************************)
(* C4. With cycle counting enabled, for every conditional branch (both     *)
(* penalty flags) the annotation is base+1/base+2 exactly when the high    *)
(* byte of the resolved target differs from the high byte of the address   *)
(* immediately after the instruction (p + 2), and base/base+1 exactly when *)
(* they are equal.                                                         *)
(* Fails: the code compares the target with p + 3 (it passes *pc + 1).     *)
(* Stated here for the offsets p with p + 3 <= 65535, where no address of  *)
(* the comparison is reduced to 16 bits.                                   *)
(***************************************************************************)
C4_BranchPageCross ==
    (Called /\ frame.found /\ options.cycle_counting /\ PenaltyFlags(FrameEntry) = {CYCLE_PAGE, CYCLE_BRANCH} /\ frame.current_addr + 3 <= 65535) =>
        LET after == (frame.current_addr + 2) % 65536
            base == FrameEntry.cycles
        IN  frame.cycle_str =
                IF HIGH_PART(frame.word_operand) # HIGH_PART(after)
                THEN TwoNumbers(base + 1, base + 2)
                ELSE TwoNumbers(base, base + 1)

(***************************************************************************)
(* C5. With cycle counting enabled, for every opcode whose table entry has *)
(* exactly one penalty flag, the annotation is base_cycles/base_cycles+1   *)
(* at every offset and for every operand; LDA $HHLL,X ($BD) always yields  *)
(* 4/5.                                                                    *)
(***************************************************************************)
C5_OneFlagAlwaysPair ==
    (Called /\ frame.found /\ options.cycle_counting /\ Cardinality(PenaltyFlags(FrameEntry)) = 1) =>
        /\ frame.cycle_str = TwoNumbers(FrameEntry.cycles, FrameEntry.cycles + 1)
        /\ frame.opcode = 189 => frame.cycle_str = " Cycles: 4/5"
        /\ output = DUMP_FORMAT(options, frame.hex_dump, frame.opcode_repr) \o frame.cycle_str \o frame.nes_str

\* LDA $2000,X: the operand lies in another page than the address passed
\* with it to append_cycle, and the annotation is 4/5
C5_Witness ==
    /\ Called
    /\ options.cycle_counting
    /\ frame.opcode = 189
    /\ frame.word_operand = 8192
    /\ PageBits(frame.cycle_pc) # PageBits(frame.word_operand)
    /\ frame.cycle_str = " Cycles: 4/5"

(***************************************************************************)
(* C6. For every valid opcode with no penalty flag, at every offset and    *)
(* for every operand, the annotation is the single number base_cycles when *)
(* cycle counting is enabled (2 for ADC #imm, $69); and for every opcode,  *)
(* the output carries no cycle annotation when cycle counting is disabled. *)
(***************************************************************************)
C6_SingleNumberOrNone ==
    Called =>
        /\ (frame.found /\ options.cycle_counting /\ PenaltyFlags(FrameEntry) = {}) =>
               /\ frame.cycle_str = OneNumber(FrameEntry.cycles)
               /\ output = DUMP_FORMAT(options, frame.hex_dump, frame.opcode_repr) \o frame.cycle_str \o frame.nes_str
               /\ frame.opcode = 105 => frame.cycle_str = " Cycles: 2"
        /\ ~options.cycle_counting =>
               /\ frame.cycle_str = ""
               /\ output = DUMP_FORMAT(options, frame.hex_dump, frame.opcode_repr) \o (IF frame.found THEN frame.nes_str ELSE " INVALID OPCODE !!!")

\* ADC #$FF at $8000 with only -c: the line ends in the single number 2
C6_Witness ==
    /\ Called
    /\ frame.opcode = 105
    /\ output = "$8000   ADC #$FF        ; Cycles: 2"

(***************************************************************************)
(* C7. The opcode table is total over all 256 byte values, and its         *)
(* mnemonic/addressing-mode pairing is the canonical NMOS 6502 encoding:   *)
(* exactly the 151 documented opcodes are valid, each with its canonical   *)
(* mnemonic and addressing mode, and every other byte value is invalid.    *)
(***************************************************************************)
\* The documented NMOS 6502 instruction set, listed by mnemonic:
\* <<opcode, mnemonic, addressing mode>>
Canonical6502 == {
    << 97, "ADC", INDIN>>,
    <<101, "ADC", ZEROP>>,
    <<105, "ADC", IMMED>>,
    <<109, "ADC", ABSOL>>,
    <<113, "ADC", ININD>>,
    <<117, "ADC", ZEPIX>>,
    <<121, "ADC", ABSIY>>,
    <<125, "ADC", ABSIX>>,
    << 33, "AND", INDIN>>,
    << 37, "AND", ZEROP>>,
    << 41, "AND", IMMED>>,
    << 45, "AND", ABSOL>>,
    << 49, "AND", ININD>>,
    << 53, "AND", ZEPIX>>,
    << 57, "AND", ABSIY>>,
    << 61, "AND", ABSIX>>,
    <<  6, "ASL", ZEROP>>,
    << 10, "ASL", ACCUM>>,
    << 14, "ASL", ABSOL>>,
    << 22, "ASL", ZEPIX>>,
    << 30, "ASL", ABSIX>>,
    <<144, "BCC", RELAT>>,
    <<176, "BCS", RELAT>>,
    <<240, "BEQ", RELAT>>,
    << 36, "BIT", ZEROP>>,
    << 44, "BIT", ABSOL>>,
    << 48, "BMI", RELAT>>,
    <<208, "BNE", RELAT>>,
    << 16, "BPL", RELAT>>,
    <<  0, "BRK", IMPLI>>,
    << 80, "BVC", RELAT>>,
    <<112, "BVS", RELAT>>,
    << 24, "CLC", IMPLI>>,
    <<216, "CLD", IMPLI>>,
    << 88, "CLI", IMPLI>>,
    <<184, "CLV", IMPLI>>,
    <<193, "CMP", INDIN>>,
    <<197, "CMP", ZEROP>>,
    <<201, "CMP", IMMED>>,
    <<205, "CMP", ABSOL>>,
    <<209, "CMP", ININD>>,
    <<213, "CMP", ZEPIX>>,
    <<217, "CMP", ABSIY>>,
    <<221, "CMP", ABSIX>>,
    <<224, "CPX", IMMED>>,
    <<228, "CPX", ZEROP>>,
    <<236, "CPX", ABSOL>>,
    <<192, "CPY", IMMED>>,
    <<196, "CPY", ZEROP>>,
    <<204, "CPY", ABSOL>>,
    <<198, "DEC", ZEROP>>,
    <<206, "DEC", ABSOL>>,
    <<214, "DEC", ZEPIX>>,
    <<222, "DEC", ABSIX>>,
    <<202, "DEX", IMPLI>>,
    <<136, "DEY", IMPLI>>,
    << 65, "EOR", INDIN>>,
    << 69, "EOR", ZEROP>>,
    << 73, "EOR", IMMED>>,
    << 77, "EOR", ABSOL>>,
    << 81, "EOR", ININD>>,
    << 85, "EOR", ZEPIX>>,
    << 89, "EOR", ABSIY>>,
    << 93, "EOR", ABSIX>>,
    <<230, "INC", ZEROP>>,
    <<238, "INC", ABSOL>>,
    <<246, "INC", ZEPIX>>,
    <<254, "INC", ABSIX>>,
    <<232, "INX", IMPLI>>,
    <<200, "INY", IMPLI>>,
    << 76, "JMP", ABSOL>>,
    <<108, "JMP", INDIA>>,
    << 32, "JSR", ABSOL>>,
    <<161, "LDA", INDIN>>,
    <<165, "LDA", ZEROP>>,
    <<169, "LDA", IMMED>>,
    <<173, "LDA", ABSOL>>,
    <<177, "LDA", ININD>>,
    <<181, "LDA", ZEPIX>>,
    <<185, "LDA", ABSIY>>,
    <<189, "LDA", ABSIX>>,
    <<162, "LDX", IMMED>>,
    <<166, "LDX", ZEROP>>,
    <<174, "LDX", ABSOL>>,
    <<182, "LDX", ZEPIY>>,
    <<190, "LDX", ABSIY>>,
    <<160, "LDY", IMMED>>,
    <<164, "LDY", ZEROP>>,
    <<172, "LDY", ABSOL>>,
    <<180, "LDY", ZEPIX>>,
    <<188, "LDY", ABSIX>>,
    << 70, "LSR", ZEROP>>,
    << 74, "LSR", ACCUM>>,
    << 78, "LSR", ABSOL>>,
    << 86, "LSR", ZEPIX>>,
    << 94, "LSR", ABSIX>>,
    <<234, "NOP", IMPLI>>,
    <<  1, "ORA", INDIN>>,
    <<  5, "ORA", ZEROP>>,
    <<  9, "ORA", IMMED>>,
    << 13, "ORA", ABSOL>>,
    << 17, "ORA", ININD>>,
    << 21, "ORA", ZEPIX>>,
    << 25, "ORA", ABSIY>>,
    << 29, "ORA", ABSIX>>,
    << 72, "PHA", IMPLI>>,
    <<  8, "PHP", IMPLI>>,
    <<104, "PLA", IMPLI>>,
    << 40, "PLP", IMPLI>>,
    << 38, "ROL", ZEROP>>,
    << 42, "ROL", ACCUM>>,
    << 46, "ROL", ABSOL>>,
    << 54, "ROL", ZEPIX>>,
    << 62, "ROL", ABSIX>>,
    <<102, "ROR", ZEROP>>,
    <<106, "ROR", ACCUM>>,
    <<110, "ROR", ABSOL>>,
    <<118, "ROR", ZEPIX>>,
    <<126, "ROR", ABSIX>>,
    << 64, "RTI", IMPLI>>,
    << 96, "RTS", IMPLI>>,
    <<225, "SBC", INDIN>>,
    <<229, "SBC", ZEROP>>,
    <<233, "SBC", IMMED>>,
    <<237, "SBC", ABSOL>>,
    <<241, "SBC", ININD>>,
    <<245, "SBC", ZEPIX>>,
    <<249, "SBC", ABSIY>>,
    <<253, "SBC", ABSIX>>,
    << 56, "SEC", IMPLI>>,
    <<248, "SED", IMPLI>>,
    <<120, "SEI", IMPLI>>,
    <<129, "STA", INDIN>>,
    <<133, "STA", ZEROP>>,
    <<141, "STA", ABSOL>>,
    <<145, "STA", ININD>>,
    <<149, "STA", ZEPIX>>,
    <<153, "STA", ABSIY>>,
    <<157, "STA", ABSIX>>,
    <<134, "STX", ZEROP>>,
    <<142, "STX", ABSOL>>,
    <<150, "STX", ZEPIY>>,
    <<132, "STY", ZEROP>>,
    <<140, "STY", ABSOL>>,
    <<148, "STY", ZEPIX>>,
    <<170, "TAX", IMPLI>>,
    <<168, "TAY", IMPLI>>,
    <<186, "TSX", IMPLI>>,
    <<138, "TXA", IMPLI>>,
    <<154, "TXS", IMPLI>>,
    <<152, "TYA", IMPLI>>
    }

CanonicalOpcodes == {c[1] : c \in Canonical6502}

\* C7: the table has 256 rows; a byte value is valid in it exactly when it is
\* one of the 151 documented opcodes, and then with the documented mnemonic
\* and addressing mode; and a decode call renders the documented mnemonic in
\* the template of the documented mode.

C7_TableIsCanonical ==
    /\ Len(g_opcode_table) = 256
    /\ Cardinality(Canonical6502) = 151
    /\ Cardinality(CanonicalOpcodes) = 151
    /\ \A op \in 0 .. 255 :
           LET e == opcode_entry(op)
           IN  IF op \in CanonicalOpcodes
               THEN /\ ~HasFlag(e.cycles_exceptions, BAD)
                    /\ <<op, e.mnemonic, e.addressing>> \in Canonical6502
               ELSE HasFlag(e.cycles_exceptions, BAD)
    /\ Called =>
           /\ frame.found <=> frame.opcode \in CanonicalOpcodes
           /\ frame.found =>
                  \E c \in Canonical6502 :
                      /\ c[1] = frame.opcode
                      /\ Len(frame.operands) = OperandWidthOf(c[3])
                      /\ frame.opcode_repr = OpcodeRepr(c[3], c[2], [operands |-> <<0, 0>>, byte_operand |-> 0, word_operand |-> 0, reads |-> <<>>, pc |-> 0], IF c[3] = RELAT THEN DEFAULT_ORG + 2 ELSE 0)

\* opcode $8C was looked up and decoded as STY absolute
C7_Witness ==
    /\ Called
    /\ frame.opcode = 140
    /\ frame.found
    /\ frame.opcode_repr = "STY $0000"

(***************************************************************************)
(* C8. The driver loop always terminates: for every origin, every byte     *)
(* count n with origin + n <= 65536 and every buffer content, the cursor   *)
(* is at or past the stop bound origin + n after at most n calls of        *)
(* disassemble, and the loop then stops.                                   *)
(* Fails: the uint16_t cursor wraps to 0 at the top of the address space   *)
(* and is below the stop bound again, so the loop goes on.                 *)
(***************************************************************************)
C8_LoopEndsWithinNCalls ==
    /\ calls <= options.max_num_bytes
    /\ (calls = options.max_num_bytes) => ~(pc < end)
    /\ (stage = "done") => pc >= end

(***************************************************************************)
(* C9. For every offset in [0, 65535] and every valid opcode of operand    *)
(* width w >= 1, the operand bytes used are the bytes immediately after    *)
(* the opcode, buffer[offset + 1] and (for w = 2) buffer[offset + 2], also *)
(* when those indices lie in the padding beyond index 65535.               *)
(* Fails: after the opcode at 65535 the cursor of C1 is 0, and the         *)
(* operand is read from buffer[0] (and buffer[1]).                         *)
(***************************************************************************)
C9_OperandBytesFollowOpcode ==
    (Called /\ frame.found /\ OperandWidthOf(FrameEntry.addressing) >= 1) =>
        LET p == frame.current_addr
            w == OperandWidthOf(FrameEntry.addressing)
        IN  /\ frame.reads = [k \in 1 .. (w + 1) |-> p + k - 1]
            /\ frame.operands = [k \in 1 .. w |-> ReadCell(buffer, p + k)]

(***************************************************************************)
(* C10. Reads never fault: in every decode call reachable from the driver, *)
(* every buffer index disassemble reads is smaller than the allocated size *)
(* 65536 + 4, so at most the padding is touched.                           *)
(***************************************************************************)
C10_ReadsInsideAllocation ==
    \A k \in 1 .. Len(frame.reads) :
        /\ frame.reads[k] >= 0
        /\ frame.reads[k] < BUFFER_SIZE

\* LDA absolute in the last but one byte of the address space: its second
\* operand byte is read from the first byte of the padding
C10_Witness ==
    /\ Called
    /\ frame.opcode = 173
    /\ frame.current_addr = 65534
    /\ frame.reads = <<65534, 65535, 65536>>

(***************************************************************************)
(* C11. A table entry has both CYCLE_PAGE and CYCLE_BRANCH set if and only *)
(* if its addressing mode is Relative (the eight conditional branches);    *)
(* no entry has CYCLE_BRANCH without CYCLE_PAGE.  Checked on the entry of  *)
(* each of the 256 byte values as disassemble looks it up.                 *)
(***************************************************************************)
C11_BothFlagsIffRelative ==
    Called =>
        /\ (PenaltyFlags(FrameEntry) = {CYCLE_PAGE, CYCLE_BRANCH}) <=> (frame.found /\ FrameEntry.addressing = RELAT)
        /\ (CYCLE_BRANCH \in PenaltyFlags(FrameEntry)) => (CYCLE_PAGE \in PenaltyFlags(FrameEntry))
        /\ (frame.found /\ FrameEntry.addressing = RELAT) => frame.opcode \in {16, 48, 80, 112, 144, 176, 208, 240}

\* BEQ was looked up: Relative, with both flags, annotated by the branch rule
C11_Witness ==
    /\ Called
    /\ frame.opcode = 240
    /\ FrameEntry.addressing = RELAT
    /\ PenaltyFlags(FrameEntry) = {CYCLE_PAGE, CYCLE_BRANCH}
    /\ options.cycle_counting
    /\ frame.cycle_str = TwoNumbers(2, 3)

(***************************************************************************)
(* C12. Every table entry with exactly one penalty flag uses an indexed    *)
(* addressing mode in which a page cross is possible (AbsoluteIndexedX,    *)
(* AbsoluteIndexedY or IndirectIndexedY), and no entry of another mode     *)
(* (Relative apart) gets a two-number annotation.                          *)
(* Fails: the row of $41, EOR ($XX,X), IndexedIndirectX, carries           *)
(* CYCLE_PAGE and is annotated " Cycles: 6/7".                             *)
(***************************************************************************)
C12_OneFlagIsIndexed ==
    Called =>
        /\ (Cardinality(PenaltyFlags(FrameEntry)) = 1) => (FrameEntry.addressing \in {ABSIX, ABSIY, ININD})
        /\ (frame.found /\ options.cycle_counting /\ FrameEntry.addressing \notin {ABSIX, ABSIY, ININD, RELAT})
               => frame.cycle_str = OneNumber(FrameEntry.cycles)

C14_CallsLeaveInputsAlone == [][buffer' = buffer /\ options' = options]_vars

\* three calls were made, the cursor and the line changed, on a buffer with
\* a non-zero byte and with an option set
C14_Witness ==
    /\ calls >= 3
    /\ pc # DEFAULT_ORG
    /\ output # ""
    /\ \E i \in DOMAIN buffer : buffer[i] # 0
    /\ options.omit_opcodes

\* the operand text of each addressing mode, as the specification lists the
\* templates: XX a byte, HHLL and TTTT a 16-bit value, in upper-case hex
OperandText(addressing, operands, target) ==
    CASE addressing = IMMED -> " #$" \o Fmt0X(2, operands[1])
      [] addressing = ZEROP -> " $" \o Fmt0X(2, operands[1])
      [] addressing = ZEPIX -> " $" \o Fmt0X(2, operands[1]) \o ",X"
      [] addressing = ZEPIY -> " $" \o Fmt0X(2, operands[1]) \o ",Y"
      [] addressing = ABSOL -> " $" \o Fmt0X(4, operands[1] + 256 * operands[2])
      [] addressing = ABSIX -> " $" \o Fmt0X(4, operands[1] + 256 * operands[2]) \o ",X"
      [] addressing = ABSIY -> " $" \o Fmt0X(4, operands[1] + 256 * operands[2]) \o ",Y"
      [] addressing = INDIA -> " ($" \o Fmt0X(4, operands[1] + 256 * operands[2]) \o ")"
      [] addressing = INDIN -> " ($" \o Fmt0X(2, operands[1]) \o ",X)"
      [] addressing = ININD -> " ($" \o Fmt0X(2, operands[1]) \o "),Y"
      [] addressing = RELAT -> " $" \o Fmt0X(4, target)
      [] addressing = ACCUM -> " A"
      [] addressing = IMPLI -> ""

(***************************************************************************)
(* C15. For every valid opcode the mnemonic-and-operand text is the        *)
(* mnemonic followed by the one template of its addressing mode filled     *)
(* with the operand value, whatever the hex-dump, Apple II, omit-opcodes,  *)
(* cycle-counting and NES options are; for the 2-byte modes the displayed  *)
(* 16-bit value is (first operand byte) + 256 * (second operand byte).     *)
(***************************************************************************)
C15_TextByModeAndOperand ==
    (Called /\ frame.found) =>
        LET a == FrameEntry.addressing
            target == IF a = RELAT THEN (frame.current_addr + 2 + SignedByte(frame.operands[1])) % 65536 ELSE 0
        IN  /\ Len(frame.operands) = OperandWidthOf(a)
            /\ frame.opcode_repr = FrameEntry.mnemonic \o OperandText(a, frame.operands, target)

\* LDA absolute with operand bytes $01 $20 was rendered "LDA $2001" with
\* every option switched on
C15_Witness ==
    /\ Called
    /\ frame.opcode = 173
    /\ frame.operands = <<1, 32>>
    /\ frame.opcode_repr = "LDA $2001"
    /\ options.hex_output /\ options.apple2_output /\ options.omit_opcodes
    /\ options.cycle_counting /\ options.nes_mode

\* the registers the specification lists: $2000-$2007, $4000-$400C, $400E-$4017
NesRegisters == (8192 .. 8199) \cup (16384 .. 16396) \cup (16398 .. 16407)

(***************************************************************************)
(* C16. A NES register comment is appended to a decoded line if and only   *)
(* if NES mode is enabled, the opcode is valid, its addressing mode is     *)
(* Absolute, AbsoluteIndexedX or AbsoluteIndexedY, and its 16-bit operand  *)
(* is one of the listed registers; for every other mode (IndirectAbsolute, *)
(* the zero-page modes, Relative) and every other operand the line ends    *)
(* after the text and the cycle annotation.                                *)
(***************************************************************************)
C16_NesCommentIff ==
    Called =>
        LET a == FrameEntry.addressing
            listed == /\ options.nes_mode
                      /\ frame.found
                      /\ a \in {ABSOL, ABSIX, ABSIY}
                      /\ (frame.operands[1] + 256 * frame.operands[2]) \in NesRegisters
        IN  /\ (frame.nes_str # "") <=> listed
            /\ listed => frame.nes_str = append_nes(frame.operands[1] + 256 * frame.operands[2])
            /\ frame.found => output = DUMP_FORMAT(options, frame.hex_dump, frame.opcode_repr) \o frame.cycle_str \o frame.nes_str
            /\ ~frame.found => output = DUMP_FORMAT(options, frame.hex_dump, frame.opcode_repr) \o " INVALID OPCODE !!!"

\* STA $2000 was decoded in NES mode and commented as the first PPU register
C16_Witness ==
    /\ Called
    /\ options.nes_mode
    /\ ~options.cycle_counting /\ ~options.hex_output /\ ~options.apple2_output /\ ~options.omit_opcodes
    /\ frame.opcode = 141
    /\ frame.operands = <<0, 32>>
    /\ frame.nes_str = " [NES] PPU setup #1"
    /\ output = "$8000   STA $2000       ; [NES] PPU setup #1"

\* the bytes of the instruction a call decoded: the opcode and its operand
InstructionLength(f) == 1 + Len(f.operands)

(***************************************************************************)
(* C17. In the driver loop the decode calls tile the region: the first     *)
(* call starts at the origin, every later call starts exactly at the       *)
(* cursor the previous call returned, every decoded instruction starts at  *)
(* an address in [origin, stop bound), the last instruction extends at     *)
(* most 2 bytes past the stop bound, and any operand byte taken from at or *)
(* beyond the stop bound is 0.                                             *)
(* Fails: at the top of the address space the cursor of C1 wraps to 0,     *)
(* and the call after an instruction that ends at 65536 starts at address  *)
(* 0, below the origin.                                                    *)
(***************************************************************************)
C17_CallsTileRegion ==
    \A k \in 1 .. Len(history) :
        LET f == history[k]
        IN  /\ (k = 1) => f.current_addr = options.org
            /\ (k > 1) => f.current_addr = history[k - 1].pc
            /\ (k > 1) => f.current_addr = history[k - 1].current_addr + InstructionLength(history[k - 1])
            /\ f.current_addr >= options.org
            /\ f.current_addr < end
            /\ f.current_addr < options.org + options.max_num_bytes
            /\ f.current_addr + InstructionLength(f) <= end + 2
            /\ \A i \in 2 .. Len(f.reads) : (f.reads[i] >= end) => f.operands[i - 1] = 0

\* main has passed done_file: the clamps and the fread are done
Loaded == stage \in {"loop", "done"}

\* min(file size, 65536)
ClampedFileSize == IF input_file.size < 65536 THEN input_file.size ELSE 65536

\* the smaller of two numbers
Min(a, b) == IF a < b THEN a ELSE b

\* the cells of the buffer the fread wrote hold the bytes of the file from
\* the start offset on
LoadedBytesAreFileBytes ==
    /\ DOMAIN buffer = options.org .. (options.org + options.max_num_bytes - 1)
    /\ DOMAIN buffer \subseteq 0 .. 65535
    /\ \A i \in {options.org, options.org + options.max_num_bytes - 1} \cap DOMAIN buffer :
           buffer[i] = FileByte(input_file, options.start_offset + (i - options.org))

(***************************************************************************)
(* C18 as stated.  After main's clamping steps, for every file size, start *)
(* offset, requested length and origin: start_offset + max_num_bytes <=    *)
(* min(file size, 65536) and origin + max_num_bytes <= 65536, the bytes    *)
(* loaded land only in buffer[origin .. origin + max_num_bytes) inside     *)
(* [0, 65536), and the stop bound never exceeds 65536.                     *)
(* Fails for a start offset beyond the file size: the length is 0 there,   *)
(* and start_offset + 0 is greater than the size.                          *)
(***************************************************************************)
C18_ClampedLoadAnyStart ==
    Loaded =>
        /\ options.start_offset + options.max_num_bytes <= ClampedFileSize
        /\ options.org + options.max_num_bytes <= 65536
        /\ LoadedBytesAreFileBytes
        /\ end <= 65536

(***************************************************************************)
(* C18 amended.  After main's clamping steps, for every file size, start   *)
(* offset, requested length and origin: origin + max_num_bytes <= 65536,   *)
(* the bytes loaded land only in buffer[origin .. origin + max_num_bytes)  *)
(* inside [0, 65536), the stop bound is origin + max_num_bytes and never   *)
(* exceeds 65536; when the start offset is at most min(file size, 65536),  *)
(* start_offset + max_num_bytes <= min(file size, 65536), and with no -m   *)
(* length the length is what is left of the clamped file size after the    *)
(* start offset, clamped to the origin; when the start offset is greater,  *)
(* max_num_bytes is 0.                                                     *)
(***************************************************************************)
C18_ClampedLoad ==
    Loaded =>
        /\ options.max_num_bytes >= 0
        /\ options.org + options.max_num_bytes <= 65536
        /\ LoadedBytesAreFileBytes
        /\ end = options.org + options.max_num_bytes
        /\ end <= 65536
        /\ (options.start_offset <= ClampedFileSize) =>
               /\ options.start_offset + options.max_num_bytes <= ClampedFileSize
               /\ ~options.user_length =>
                      options.max_num_bytes = Min(ClampedFileSize - options.start_offset, 65536 - options.org)
        /\ (options.start_offset > ClampedFileSize) => options.max_num_bytes = 0

\* a file of 65537 bytes read from its second byte on at origin $8000: the
\* size is clamped to 65536, the length to 65535 and then to 32768
C18_Witness ==
    /\ Loaded
    /\ input_file.size = 65537
    /\ options.start_offset = 1
    /\ options.org = DEFAULT_ORG
    /\ ~options.user_length
    /\ options.max_num_bytes = 32768
    /\ end = 65536
    /\ buffer[DEFAULT_ORG] = FileByte(input_file, 1)

(***************************************************************************)
(* C19. When the start offset is greater than the (clamped) file size,     *)
(* max_num_bytes is set to 0, no byte is read from the file into the       *)
(* buffer and the driver loop decodes zero instructions, whatever the      *)
(* earlier 'size - start_offset' clamp produced; the same holds when the   *)
(* start offset equals the file size.                                      *)
(***************************************************************************)
C19_StartPastSizeDecodesNothing ==
    (Loaded /\ options.start_offset >= ClampedFileSize) =>
        /\ options.max_num_bytes = 0
        /\ DOMAIN buffer = {}
        /\ pc = options.org
        /\ ~(pc < end)
        /\ calls = 0
        /\ history = <<>>

\* a file of 2 bytes with start offset 3 and the default length (for which
\* 'size - start_offset' wraps below zero): main reached the end of its
\* loop without a decode call
C19_Witness ==
    /\ stage = "done"
    /\ input_file.size = 2
    /\ options.start_offset = 3
    /\ ~options.user_length
    /\ ClampLength(options, 2, 2) < 0
    /\ options.max_num_bytes = 0
    /\ calls = 0

(***************************************************************************)
(* C20. The cursor is a 16-bit value in every reachable state: after every *)
(* decode call it lies in [0, 65535], and when old offset + 1 +            *)
(* operand_width exceeds 65535 the new cursor is that sum reduced modulo   *)
(* 65536; an operand of an instruction at offset 65535 is fetched starting *)
(* at cursor 0.                                                            *)
(***************************************************************************)
C20_CursorIsSixteenBits ==
    /\ pc \in 0 .. 65535
    /\ Called =>
           LET sum == frame.current_addr + 1 + Len(frame.operands)
           IN  /\ frame.found => Len(frame.operands) = OperandWidthOf(FrameEntry.addressing)
               /\ (sum <= 65535) => pc = sum
               /\ (sum > 65535) => pc = sum - 65536
               /\ (frame.current_addr = 65535) =>
                      \A k \in 1 .. Len(frame.operands) :
                          /\ frame.reads[k + 1] = k - 1
                          /\ frame.operands[k] = ReadCell(buffer, k - 1)

\* LDA absolute at offset 65535: its operand was fetched from buffer[0] and
\* buffer[1], and the cursor is 2
C20_Witness ==
    /\ Called
    /\ frame.current_addr = 65535
    /\ frame.opcode = 173
    /\ frame.reads = <<65535, 0, 1>>
    /\ frame.operands = <<64, 64>>
    /\ pc = 2

\* the address/hex column of a one-byte line, by the three options that
\* shape it: nothing, the address, or the address and the opcode byte
AddressColumn(opts, addr, opcode) ==
    IF opts.omit_opcodes THEN ""
    ELSE IF opts.hex_output
         THEN IF opts.apple2_output
              THEN Fmt0X(4, addr) \o ":" \o Fmt0X(2, opcode) \o "        "
              ELSE "$" \o Fmt0X(4, addr) \o "> " \o Fmt0X(2, opcode) \o ":"
         ELSE IF opts.apple2_output
              THEN Fmt0X(4, addr) \o ":"
              ELSE "$" \o Fmt0X(4, addr)

(***************************************************************************)
(* C21. An invalid opcode never receives a cycle annotation or a NES       *)
(* comment, even when cycle counting and NES mode are both enabled: its    *)
(* output is the (optional) address/hex column, the raw-byte rendering     *)
(* ".byte $XX" and the invalid-opcode marker, and nothing after the        *)
(* marker.                                                                 *)
(***************************************************************************)
C21_InvalidOpcodeNoAnnotation ==
    (Called /\ HasFlag(FrameEntry.cycles_exceptions, BAD)) =>
        /\ ~frame.found
        /\ frame.cycle_str = ""
        /\ frame.nes_str = ""
        /\ output = PadRight(IF options.hex_output THEN 16 ELSE 8, AddressColumn(options, frame.current_addr, frame.opcode))
                        \o PadRight(16, ".byte $" \o Fmt0X(2, frame.opcode))
                        \o ";" \o " INVALID OPCODE !!!"

\* the illegal opcode $0C, followed by the bytes of the register $2000, was
\* decoded with cycle counting and NES mode on
C21_Witness ==
    /\ Called
    /\ frame.opcode = 12
    /\ frame.current_addr = DEFAULT_ORG
    /\ ReadCell(buffer, DEFAULT_ORG + 1) = 0 /\ ReadCell(buffer, DEFAULT_ORG + 2) = 32
    /\ options.cycle_counting /\ options.nes_mode
    /\ ~options.hex_output /\ ~options.apple2_output /\ ~options.omit_opcodes
    /\ output = "$8000   .byte $0C       ; INVALID OPCODE !!!"

(***************************************************************************)
(* C22. Every cycle annotation is bounded by the table entry: a            *)
(* single-number annotation equals base_cycles, and in every two-number    *)
(* annotation N/M the second number is exactly N + 1, N is base_cycles or  *)
(* base_cycles + 1, and N = base_cycles + 1 occurs only for entries with   *)
(* both penalty flags; every valid entry has base_cycles in [2, 7] and     *)
(* every invalid entry has base_cycles 0 and no penalty flag.              *)
(***************************************************************************)
C22_AnnotationBoundedByEntry ==
    Called =>
        LET base == FrameEntry.cycles
            flags == PenaltyFlags(FrameEntry)
        IN  /\ frame.found => base \in 2 .. 7
            /\ ~frame.found => (base = 0 /\ flags = {})
            /\ (frame.cycle_str # "") =>
                   /\ frame.cycle_str \in {OneNumber(base), TwoNumbers(base, base + 1), TwoNumbers(base + 1, base + 2)}
                   /\ (frame.cycle_str = OneNumber(base)) <=> (flags = {})
                   /\ (frame.cycle_str = TwoNumbers(base + 1, base + 2)) => (flags = {CYCLE_PAGE, CYCLE_BRANCH})
            /\ (frame.found /\ options.cycle_counting) => frame.cycle_str # ""

\* BEQ at $8000 with operand $80 (a branch back into page $7F) was annotated
\* with base_cycles + 1 and base_cycles + 2
C22_Witness ==
    /\ Called
    /\ frame.opcode = 240
    /\ frame.current_addr = DEFAULT_ORG
    /\ frame.operands = <<128>>
    /\ FrameEntry.cycles = 2
    /\ PenaltyFlags(FrameEntry) = {CYCLE_PAGE, CYCLE_BRANCH}
    /\ frame.cycle_str = " Cycles: 3/4"

(***************************************************************************)
(* Vocabulary of the command line, from the usage text (lines 697-708).    *)
(***************************************************************************)
\* the switches the usage text lists
ListedSwitches == {
    <<"-", "?">>, <<"-", "a">>, <<"-", "a", "p", "p", "l", "e">>, <<"-", "b">>,
    <<"-", "c">>, <<"-", "d">>, <<"-", "h">>, <<"-", "m">>, <<"-", "n">>,
    <<"-", "o">>, <<"-", "s">>, <<"-", "v">> }

\* the switches the usage text gives an argument
ValueSwitches == {<<"-", "b">>, <<"-", "m">>, <<"-", "o">>}

\* the argument starts with '-'
StartsWithDash(arg) == Len(arg) >= 1 /\ arg[1] = "-"

\* the number a well-formed argument writes
NumberWritten(arg) ==
    CASE arg = <<"0", "x", "1", "8", "0", "0", "0">> -> 98304
      [] arg = <<"6", "5", "5", "3", "7">> -> 65537
      [] arg = <<"7">> -> 7

\* the process ends with the given code
ExitsWith(code) == stage' = "exit" /\ exit_code' = code

\* a step of parse_args at the argument under arg_idx ends with exit code 1
\* when none remains, when a switch that takes a value is last or followed
\* by a dash, and takes the first argument without a dash as the filename,
\* leaving the other options alone; while it goes on it moves right; the
\* length it returns is at most 65536 and the origin is 0x8000 until -o
\* sets it to its value modulo 65536
C23_StepKeepsRest ==
    stage = "args" =>
        LET rest == arg_idx < Len(argv)
            cur == argv[arg_idx + 1]
        IN  /\ ~rest => ExitsWith(1)
            /\ (rest /\ ~StartsWithDash(cur)) =>
                   /\ stage' = "parsed"
                   /\ options'.filename = cur
                   /\ \A f \in DOMAIN options : options'[f] = options[f]
            /\ (rest /\ cur \in ValueSwitches /\ (arg_idx + 1 = Len(argv) \/ StartsWithDash(argv[arg_idx + 2]))) => ExitsWith(1)
            /\ stage' = "args" => (arg_idx' > arg_idx /\ argv' = argv)
            /\ stage' = "parsed" => options'.max_num_bytes <= 65536
            /\ (rest /\ cur = <<"-", "o">> /\ stage' = "args") => options'.org = NumberWritten(argv[arg_idx + 2]) % 65536
            /\ (rest /\ cur # <<"-", "o">>) => options'.org = options.org
            /\ arg_idx = 1 => options.org = 32768

\* a step at a switch the usage text does not list ends with exit code 1
C23_StepRejectsUnlisted ==
    stage = "args" =>
        LET rest == arg_idx < Len(argv)
            cur == argv[arg_idx + 1]
        IN  (rest /\ StartsWithDash(cur) /\ cur \notin ListedSwitches) => ExitsWith(1)

\* C23: parse_args consumes switches left to right and stops at the first
\* argument that does not start with '-', which becomes the filename (later
\* arguments are ignored); it exits with code 1 when no filename remains,
\* when a switch is unrecognised, or when -b, -m or -o is the last argument
\* or is followed by an argument starting with '-'; on success the -m
\* length is at most 65536 and the origin is the -o value reduced to 16
\* bits (default 0x8000)
C23_ParseArgs == [][C23_StepKeepsRest /\ C23_StepRejectsUnlisted]_vars
====
